---- MODULE Spec2Model ----
(***************************************************************************)
(* Model of veroviz's shapepoint assembler (getShapepoints2D.py) and of   *)
(* the helpers it calls.  The library is stateless: every operation is a  *)
(* synchronous call, so the state is the call in progress (its operation  *)
(* and arguments) and what that call produced (return value, exception,   *)
(* messages printed, collaborators invoked).                              *)
(*                                                                         *)
(* Numbers: Python floats are modelled as exact rationals <<num, den>>    *)
(* (den > 0, lowest terms), so a sum of shares is compared exactly.       *)
(* Python's None is NoneNum for numbers and lists, NoneStr for strings.   *)
(***************************************************************************)
EXTENDS Integers, Sequences, FiniteSets, TLC

VARIABLES op, args, ret

vars == <<op, args, ret>>

-----------------------------------------------------------------------------
(* Bounds of the model *)

\* metres of geodesic distance per grid step
MetersPerStep == 10
\* the altitude given on 3-element locations
AltMeters == 5
\* the expected duration a caller passes
DurationSec == 6
\* the start time of the caller that sets one
LateStartSec == 3
\* the speed a caller passes, and a faster one to compare it with
SlowMPS == 2
FastMPS == 5
\* a provider's time for its k-th segment is k * ProviderSecPerSeg
ProviderSecPerSeg == 4
\* a provider's road distance exceeds the geodesic one by this much per segment
ProviderRoadExtra == 3
\* a provider's path has at most this many points
MaxPathLen == 3
\* a convex hull is asked of at most this many locations
MaxLocs == 4
\* an Assignments dataframe has at most this many rows
MaxRows == 3
\* a map boundary is asked of at most this many nodes, and as many locations
MaxNodes == 2
\* a matrix dictionary has at most this many entries
MaxEntries == 4
\* points looked at along a segment, its two ends included: SegSamples + 1
SegSamples == 4

-----------------------------------------------------------------------------
(* Python values *)

NoneNum == <<>>
NoneStr == "<None>"
\* a modelFile is a sequence of characters; this one stands for None
NoneFile == <<NoneStr>>

Abs(n) == IF n < 0 THEN -n ELSE n

RECURSIVE GCD(_, _)
GCD(a, b) == IF b = 0 THEN a ELSE GCD(b, a % b)

\* the rational n/d in lowest terms with a positive denominator (d # 0)
Rat(n, d) ==
    LET g == GCD(Abs(n), Abs(d))
        s == IF d < 0 THEN -1 ELSE 1
    IN  <<(s * n) \div g, (s * d) \div g>>

R(n) == <<n, 1>>
RAdd(x, y) == Rat(x[1] * y[2] + y[1] * x[2], x[2] * y[2])
RMul(x, y) == Rat(x[1] * y[1], x[2] * y[2])
RIsZero(x) == x[1] = 0
\* x / y for y # 0; the callers raise ZeroDivisionError before dividing by 0
RDiv(x, y) == Rat(x[1] * y[2], x[2] * y[1])
RLeq(x, y) == x[1] * y[2] <= y[1] * x[2]

RECURSIVE RSum(_, _)
\* s[1] + ... + s[n]
RSum(s, n) == IF n = 0 THEN R(0) ELSE RAdd(RSum(s, n - 1), s[n])

RECURSIVE ISqrtFrom(_, _)
ISqrtFrom(n, k) == IF (k + 1) * (k + 1) > n THEN k ELSE ISqrtFrom(n, k + 1)
\* the integer part of the square root of n
ISqrt(n) == ISqrtFrom(n, 0)

-----------------------------------------------------------------------------
(* Collaborators of veroviz._geometry, veroviz._internal, veroviz._common  *)
(* and veroviz._validation                                                  *)

\* latitudes and longitudes, in grid steps
Lats == {0, 1}
Lons == {0, 1}

\* the geodesic distance in metres of two points dLat and dLon steps apart
geoTable ==
    [dLat \in {Abs(x - y) : x, y \in Lats}, dLon \in {Abs(x - y) : x, y \in Lons} |->
        R(ISqrt(MetersPerStep * MetersPerStep * (dLat * dLat + dLon * dLon)))]

\* geodesic distance in metres between two locations, altitude ignored
geoDistance2D(a, b) == geoTable[Abs(a[1] - b[1]), Abs(a[2] - b[2])]

\* [lat, lon] or [lat, lon, alt] as a dictionary; a missing altitude is 0
loc2Dict(loc) ==
    [lat |-> loc[1], lon |-> loc[2], alt |-> IF Len(loc) = 3 THEN loc[3] ELSE 0]

locs2Dict(locs) == [i \in 1..Len(locs) |-> loc2Dict(locs[i])]

replaceBackslashToSlash(pathString) ==
    IF pathString = NoneFile
    THEN pathString
    ELSE [i \in 1..Len(pathString) |->
            IF pathString[i] = "\\" THEN "/" ELSE pathString[i]]

\* the geodesic lengths of a path's segments, with the leading 0 of the
\* [time, dist] lists
segmentLengths(path) ==
    [i \in 1..Len(path) |->
        IF i = 1 THEN R(0) ELSE geoDistance2D(path[i - 1], path[i])]

\* re-times a path to totalTime: segment i gets totalTime * length[i] /
\* totalLength; a path of total length 0 puts all of totalTime on its final
\* segment
distributeTimeDist(path, totalTime) ==
    LET n == Len(path)
        distMeters == segmentLengths(path)
        totalDist == RSum(distMeters, n)
        timeSecs == [i \in 1..n |->
            IF i = 1 THEN R(0)
            ELSE IF RIsZero(totalDist)
                 THEN (IF i = n THEN totalTime ELSE R(0))
                 ELSE RDiv(RMul(totalTime, distMeters[i]), totalDist)]
    IN  <<timeSecs, distMeters>>

VRV_DEFAULT_DISTANCE_ERROR_TOLERANCE == 10

dataProviderDictionary ==
    [p \in {"pgrouting", "osrm-online", "mapquest", "ors-online"} |-> p]

\* str.lower() on the spellings that occur; None has no lower() and the
\* try/except leaves it as it is
lower(s) ==
    CASE s = "euclidean2D" -> "euclidean2d"
      [] s = "pgRouting"   -> "pgrouting"
      [] s = "OSRM-online" -> "osrm-online"
      [] s = "MapQuest"    -> "mapquest"
      [] s = "ORS-online"  -> "ors-online"
      [] s = "Arcs"        -> "arcs"
      [] OTHER             -> s

\* the route-type/data-provider pairings the assembler has a handler for
supportedPairing(routeType, dataProvider) ==
    \/ routeType \in {"euclidean2d", "manhattan"}
    \/ /\ dataProvider \in DOMAIN dataProviderDictionary
       /\ \/ routeType = "fastest"
             /\ dataProviderDictionary[dataProvider] \in {"pgrouting", "osrm-online"}
          \/ routeType \in {"fastest", "shortest", "pedestrian"}
             /\ dataProviderDictionary[dataProvider] = "mapquest"
          \/ routeType \in {"fastest", "pedestrian", "cycling", "truck"}
             /\ dataProviderDictionary[dataProvider] = "ors-online"

\* invalid input is signalled immediately: [valFlag, errorMsg, warningMsg]
valGetShapepoints2D(a) ==
    IF supportedPairing(lower(a.routeType), lower(a.dataProvider))
    THEN <<TRUE, "", "">>
    ELSE <<FALSE, "Error: unsupported routeType/dataProvider combination", "">>

-----------------------------------------------------------------------------
(* getShapepoints2D.py *)

\* how a route handler's frame ends: it returns [path, time, dist], or an
\* exception leaves it and nothing is handed back
Returned(path, time, dist) ==
    [exit |-> "return", path |-> path, time |-> time, dist |-> dist]
Raised(exc) == [exit |-> exc, path |-> <<>>, time |-> <<>>, dist |-> <<>>]
\* a frame that has built path and dist and has yet to compute time
Pending(path, dist) ==
    [exit |-> "pending", path |-> path, time |-> <<>>, dist |-> dist]

\* mutant: the speed is used although a duration is given
_eucGetShapepointsTimeDist_speedFirst(startLoc, endLoc, speedMPS, expDurationSec) ==
    LET path == <<startLoc, endLoc>>
        dist == <<R(0), geoDistance2D(startLoc, endLoc)>>
    IN  IF speedMPS # NoneNum /\ ~RIsZero(speedMPS)
        THEN Returned(path, <<R(0), RDiv(dist[2], speedMPS)>>, dist)
        ELSE Returned(path, <<R(0), expDurationSec>>, dist)

_eucGetShapepointsTimeDist(startLoc, endLoc, speedMPS, expDurationSec) ==
    LET path == <<startLoc, endLoc>>
        dist == <<R(0), geoDistance2D(startLoc, endLoc)>>
    IN  IF expDurationSec # NoneNum
        THEN Returned(path, <<R(0), expDurationSec>>, dist)
        ELSE IF speedMPS = NoneNum THEN Raised("TypeError")
        ELSE IF RIsZero(speedMPS) THEN Raised("ZeroDivisionError")
        ELSE Returned(path, <<R(0), RDiv(dist[2], speedMPS)>>, dist)

\* mutant: the two corners are exchanged
manPathDist_swapped(startLoc, endLoc, verticalFirst) ==
    LET corner == IF verticalFirst
                  THEN <<startLoc[1], endLoc[2]>>
                  ELSE <<endLoc[1], startLoc[2]>>
    IN  Pending(<<startLoc, corner, endLoc>>,
                <<R(0), geoDistance2D(startLoc, corner),
                        geoDistance2D(corner, endLoc)>>)

\* lines 397-402: the path and the lengths of its two legs
manPathDist(startLoc, endLoc, verticalFirst) ==
    LET corner == IF verticalFirst
                  THEN <<endLoc[1], startLoc[2]>>
                  ELSE <<startLoc[1], endLoc[2]>>
    IN  Pending(<<startLoc, corner, endLoc>>,
                <<R(0), geoDistance2D(startLoc, corner),
                        geoDistance2D(corner, endLoc)>>)

\* mutant: the duration is halved between the legs, whatever their lengths,
\* and the speed divides the first leg's length for both legs
manTime_evenSplit(path, dist, speedMPS, expDurationSec) ==
    IF expDurationSec # NoneNum
    THEN Returned(path,
                  <<R(0), RDiv(expDurationSec, R(2)), RDiv(expDurationSec, R(2))>>,
                  dist)
    ELSE Returned(path,
                  <<R(0), RDiv(dist[2], speedMPS), RDiv(dist[2], speedMPS)>>,
                  dist)

\* lines 404-409: the times of the two legs
manTime(path, dist, speedMPS, expDurationSec) ==
    IF expDurationSec # NoneNum
    THEN LET total == RAdd(dist[2], dist[3])
         IN  IF RIsZero(total)
             THEN Raised("ZeroDivisionError")
             ELSE Returned(path,
                           <<R(0),
                             RDiv(RMul(expDurationSec, dist[2]), total),
                             RDiv(RMul(expDurationSec, dist[3]), total)>>,
                           dist)
    ELSE IF speedMPS = NoneNum THEN Raised("TypeError")
    ELSE IF RIsZero(speedMPS) THEN Raised("ZeroDivisionError")
    ELSE Returned(path,
                  <<R(0), RDiv(dist[2], speedMPS), RDiv(dist[3], speedMPS)>>,
                  dist)

_manGetShapepointsTimeDist(startLoc, endLoc, speedMPS, expDurationSec, verticalFirst) ==
    LET f == manPathDist(startLoc, endLoc, verticalFirst)
    IN  manTime(f.path, f.dist, speedMPS, expDurationSec)

\* the handler the if/elif chain selects; looking up a data provider that is
\* no key of dataProviderDictionary raises KeyError
routeBranch(routeType, dataProvider) ==
    LET known == dataProvider \in DOMAIN dataProviderDictionary
        prov == dataProviderDictionary[dataProvider]
    IN  IF routeType = "euclidean2d" THEN "_eucGetShapepointsTimeDist"
        ELSE IF routeType = "manhattan" THEN "_manGetShapepointsTimeDist"
        ELSE IF routeType = "fastest" /\ ~known THEN "KeyError"
        ELSE IF routeType = "fastest" /\ prov = "pgrouting"
             THEN "pgrGetShapepointsTimeDist"
        ELSE IF routeType = "fastest" /\ prov = "osrm-online"
             THEN "osrmGetShapepointsTimeDist"
        ELSE IF routeType \in {"fastest", "shortest", "pedestrian"} /\ ~known
             THEN "KeyError"
        ELSE IF routeType \in {"fastest", "shortest", "pedestrian"} /\ prov = "mapquest"
             THEN "mqGetShapepointsTimeDist"
        ELSE IF routeType \in {"fastest", "pedestrian", "cycling", "truck"} /\ ~known
             THEN "KeyError"
        ELSE IF routeType \in {"fastest", "pedestrian", "cycling", "truck"}
                /\ prov = "ors-online"
             THEN "orsGetShapepointsTimeDist"
        ELSE "return"

\* mutant: the provider's path is made to start and end at the requested
\* locations
fetchRoute_snapsToRequest(branch, a) ==
    IF branch = "_eucGetShapepointsTimeDist"
    THEN _eucGetShapepointsTimeDist(a.startLoc, a.endLoc, a.speedMPS, a.expDurationSec)
    ELSE IF branch = "_manGetShapepointsTimeDist"
    THEN _manGetShapepointsTimeDist(a.startLoc, a.endLoc, a.speedMPS,
                                    a.expDurationSec, TRUE)
    ELSE Returned([i \in 1..Len(a.route[1]) |->
                      IF i = 1 THEN a.startLoc
                      ELSE IF i = Len(a.route[1]) THEN a.endLoc
                      ELSE a.route[1][i]],
                  a.route[2], a.route[3])

\* mutant: the grid rule is invoked horizontal-first
fetchRoute_horizontalFirst(branch, a) ==
    IF branch = "_eucGetShapepointsTimeDist"
    THEN _eucGetShapepointsTimeDist(a.startLoc, a.endLoc, a.speedMPS, a.expDurationSec)
    ELSE IF branch = "_manGetShapepointsTimeDist"
    THEN _manGetShapepointsTimeDist(a.startLoc, a.endLoc, a.speedMPS,
                                    a.expDurationSec, FALSE)
    ELSE Returned(a.route[1], a.route[2], a.route[3])

\* the [path, time, dist] of the selected handler; a provider hands back the
\* route it has for the request (a.route)
fetchRoute(branch, a) ==
    IF branch = "_eucGetShapepointsTimeDist"
    THEN _eucGetShapepointsTimeDist(a.startLoc, a.endLoc, a.speedMPS, a.expDurationSec)
    ELSE IF branch = "_manGetShapepointsTimeDist"
    THEN _manGetShapepointsTimeDist(a.startLoc, a.endLoc, a.speedMPS,
                                    a.expDurationSec, TRUE)
    ELSE Returned(a.route[1], a.route[2], a.route[3])

\* the messages printed about a route that starts or ends away from the
\* requested locations
distanceMessages(startLoc, endLoc, path) ==
    LET distOri == geoDistance2D(startLoc, path[1])
        distDes == geoDistance2D(path[Len(path)], endLoc)
        tol == R(VRV_DEFAULT_DISTANCE_ERROR_TOLERANCE)
    IN  (IF RLeq(tol, distOri) THEN <<"Message: origin">> ELSE <<>>)
        \o (IF RLeq(tol, distDes) THEN <<"Message: destination">> ELSE <<>>)

RECURSIVE accumulateTo(_, _, _)
\* acc[0] = first; acc[i] = acc[i - 1] + xs[i]   (i is 1-based here)
accumulateTo(first, xs, i) ==
    IF i = 1 THEN first ELSE RAdd(accumulateTo(first, xs, i - 1), xs[i])

\* accDist: accumulated distance, one entry per entry of dist
accDistOf(dist) == [i \in 1..Len(dist) |-> accumulateTo(R(0), dist, i)]

\* mutant: speedMPS is looked at before expDurationSec
retime_speedFirst(expDurationSec, speedMPS, path, time, dist) ==
    LET accDist == accDistOf(dist)
    IN  IF speedMPS # NoneNum /\ ~RIsZero(speedMPS)
        THEN LET nw == distributeTimeDist(path, RDiv(accDist[Len(accDist)], speedMPS))
             IN  [exit |-> "return", time |-> nw[1], dist |-> nw[2],
                  invoked |-> <<"distributeTimeDist">>]
        ELSE IF expDurationSec # NoneNum
        THEN LET nw == distributeTimeDist(path, expDurationSec)
             IN  [exit |-> "return", time |-> nw[1], dist |-> nw[2],
                  invoked |-> <<"distributeTimeDist">>]
        ELSE [exit |-> "return", time |-> time, dist |-> dist, invoked |-> <<>>]

\* mutant: the data source's total time is spread again over the path
retime_spreadsTotal(expDurationSec, speedMPS, path, time, dist) ==
    LET given == IF expDurationSec # NoneNum THEN expDurationSec
                 ELSE IF speedMPS # NoneNum
                 THEN RDiv(accDistOf(dist)[Len(dist)], speedMPS)
                 ELSE RSum(time, Len(time))
        nw == distributeTimeDist(path, given)
    IN  [exit |-> "return", time |-> nw[1], dist |-> nw[2],
         invoked |-> <<"distributeTimeDist">>]

\* mutant: speedMPS does not override the data source
retime_ignoresSpeed(expDurationSec, speedMPS, path, time, dist) ==
    IF expDurationSec # NoneNum
    THEN LET nw == distributeTimeDist(path, expDurationSec)
         IN  [exit |-> "return", time |-> nw[1], dist |-> nw[2],
              invoked |-> <<"distributeTimeDist">>]
    ELSE [exit |-> "return", time |-> time, dist |-> dist, invoked |-> <<>>]

\* the times and distances used: expDurationSec overrides speedMPS and the
\* data source, speedMPS overrides the data source
retime(expDurationSec, speedMPS, path, time, dist) ==
    LET accDist == accDistOf(dist)
    IN  IF expDurationSec # NoneNum
        THEN LET nw == distributeTimeDist(path, expDurationSec)
             IN  [exit |-> "return", time |-> nw[1], dist |-> nw[2],
                  invoked |-> <<"distributeTimeDist">>]
        ELSE IF speedMPS # NoneNum /\ expDurationSec = NoneNum
        THEN IF RIsZero(speedMPS)
             THEN [exit |-> "ZeroDivisionError", time |-> time, dist |-> dist,
                   invoked |-> <<>>]
             ELSE LET newExpDurationSec == RDiv(accDist[Len(accDist)], speedMPS)
                      nw == distributeTimeDist(path, newExpDurationSec)
                  IN  [exit |-> "return", time |-> nw[1], dist |-> nw[2],
                       invoked |-> <<"distributeTimeDist">>]
        ELSE [exit |-> "return", time |-> time, dist |-> dist, invoked |-> <<>>]

\* mutant: the accumulated time starts from 0
accTimeOf_fromZero(startTimeSec, time, dist) ==
    [i \in 1..Len(dist) |-> accumulateTo(R(0), time, i)]

\* accTime: accumulated time from startTimeSec, one entry per entry of dist
accTimeOf(startTimeSec, time, dist) ==
    [i \in 1..Len(dist) |-> accumulateTo(startTimeSec, time, i)]

\* one row of the Assignments dataframe
assignmentRow(a, modelFile, startTimeSec, startDic, endTimeSec, endDic) ==
    [odID |-> a.odID, objectID |-> a.objectID, modelFile |-> modelFile,
     startTimeSec |-> startTimeSec,
     startLat |-> startDic.lat, startLon |-> startDic.lon,
     startAltMeters |-> startDic.alt,
     endTimeSec |-> endTimeSec,
     endLat |-> endDic.lat, endLon |-> endDic.lon, endAltMeters |-> endDic.alt,
     display |-> a.display]

\* mutant: the loop stops one segment short
movingRows_dropsLast(a, modelFile, path, accTime) ==
    LET dicPath == locs2Dict(path)
    IN  [i \in 1..(Len(path) - 2) |->
            assignmentRow(a, modelFile, accTime[i], dicPath[i],
                          accTime[i + 1], dicPath[i + 1])]

\* mutant: every row starts at the first point of the path, at its time
movingRows_fromOrigin(a, modelFile, path, accTime) ==
    LET dicPath == locs2Dict(path)
    IN  [i \in 1..(Len(path) - 1) |->
            assignmentRow(a, modelFile, accTime[1], dicPath[1],
                          accTime[i + 1], dicPath[i + 1])]

\* the rows of a path: row i runs from path[i - 1] to path[i]
movingRows(a, modelFile, path, accTime) ==
    LET dicPath == locs2Dict(path)
    IN  [i \in 1..(Len(path) - 1) |->
            assignmentRow(a, modelFile, accTime[i], dicPath[i],
                          accTime[i + 1], dicPath[i + 1])]

\* mutant: the expected duration is left out of the row
stationaryRows_ignoresDuration(a, modelFile) ==
    LET dicStartLoc == loc2Dict(a.startLoc)
    IN  <<assignmentRow(a, modelFile, a.startTimeSec, dicStartLoc,
                        a.startTimeSec, dicStartLoc)>>

\* the single row of a vehicle that stays at startLoc
stationaryRows(a, modelFile) ==
    LET dicStartLoc == loc2Dict(a.startLoc)
    IN  <<assignmentRow(a, modelFile, a.startTimeSec, dicStartLoc,
                        IF a.expDurationSec # NoneNum
                        THEN RAdd(a.expDurationSec, a.startTimeSec)
                        ELSE a.startTimeSec,
                        dicStartLoc)>>

\* the outcome of a call of getShapepoints2D
Outcome(returned, exc, rows, printed, invoked) ==
    [returned |-> returned, exc |-> exc, rows |-> rows, printed |-> printed,
     invoked |-> invoked]

\* mutant: the validation result is not looked at
validationStops_never(valFlag) == FALSE

\* the validation gate: a call that fails validation stops there
validationStops(valFlag) == ~valFlag

\* the test that separates a journey from a stay: list inequality
isJourney(startLoc, endLoc) == startLoc # endLoc

\* lines 254-255: a validation that passes with a warning prints the warning
warningPrinted(warningMsg) ==
    IF warningMsg # "" THEN <<warningMsg>> ELSE <<>>

getShapepoints2D(a) ==
    LET val == valGetShapepoints2D(a)
        warned == warningPrinted(val[3])
        modelFile == replaceBackslashToSlash(a.modelFile)
        dataProvider == lower(a.dataProvider)
        routeType == lower(a.routeType)
        branch == routeBranch(routeType, dataProvider)
        r == fetchRoute(branch, a)
        msgs == distanceMessages(a.startLoc, a.endLoc, r.path)
        rt == retime(a.expDurationSec, a.speedMPS, r.path, r.time, r.dist)
        accTime == accTimeOf(a.startTimeSec, rt.time, rt.dist)
    IN  IF validationStops(val[1])
        THEN Outcome("None", "none", <<>>, <<val[2]>>, <<"valGetShapepoints2D">>)
        ELSE IF ~isJourney(a.startLoc, a.endLoc)
        THEN Outcome("Assignments", "none", stationaryRows(a, modelFile), warned,
                     <<"valGetShapepoints2D">>)
        ELSE IF branch = "KeyError"
        THEN Outcome("raised", "KeyError", <<>>, warned, <<"valGetShapepoints2D">>)
        ELSE IF branch = "return"
        THEN Outcome("None", "none", <<>>, warned, <<"valGetShapepoints2D">>)
        ELSE IF r.exit # "return"
        THEN Outcome("raised", r.exit, <<>>, warned, <<"valGetShapepoints2D", branch>>)
        ELSE IF rt.exit # "return"
        THEN Outcome("raised", rt.exit, <<>>, warned \o msgs, <<"valGetShapepoints2D", branch>>)
        ELSE Outcome("Assignments", "none",
                     movingRows(a, modelFile, r.path, accTime), warned \o msgs,
                     <<"valGetShapepoints2D", branch>> \o rt.invoked)

-----------------------------------------------------------------------------
(* The calls made of the library *)

\* [lat, lon] locations
Grid == {<<la, lo>> : la \in Lats, lo \in Lons}
\* altitudes a caller writes out: the default 0, and a height
Alts == {0, AltMeters}
\* [lat, lon] and [lat, lon, alt] locations
Locs == Grid \cup {<<la, lo, alt>> : la \in Lats, lo \in Lons, alt \in Alts}

DurationOpts == {NoneNum, R(DurationSec)}
SpeedOpts == {NoneNum, R(SlowMPS)}
RouteTypes ==
    {"euclidean2D", "manhattan", "fastest", "shortest", "cycling", "hovercraft"}
DataProviders == {NoneStr, "pgRouting", "OSRM-online", "MapQuest", "ORS-online"}

\* the caller's grouping, label, model, start time and display attributes:
\* the defaults of the signature, and a caller that sets every one of them
Callers ==
    { [odID |-> 1, objectID |-> NoneStr, modelFile |-> NoneFile,
       startTimeSec |-> R(0),
       display |-> [leafletColor |-> "orange", leafletWeight |-> 3,
                    leafletStyle |-> "solid", leafletOpacity |-> <<4, 5>>,
                    useArrows |-> TRUE, modelScale |-> 100,
                    modelMinPxSize |-> 75,
                    cesiumColor |-> "Cesium.Color.ORANGE", cesiumWeight |-> 3,
                    cesiumStyle |-> "solid", cesiumOpacity |-> <<4, 5>>]],
      [odID |-> 2, objectID |-> "truck 1",
       modelFile |-> <<"m", "\\", "c", ".", "g">>,
       startTimeSec |-> R(LateStartSec),
       display |-> [leafletColor |-> "blue", leafletWeight |-> 5,
                    leafletStyle |-> "dashed", leafletOpacity |-> <<1, 2>>,
                    useArrows |-> FALSE, modelScale |-> 50,
                    modelMinPxSize |-> 60,
                    cesiumColor |-> "Cesium.Color.BLUE", cesiumWeight |-> 4,
                    cesiumStyle |-> "dotted", cesiumOpacity |-> <<1, 2>>]] }

\* sequences over S of length 0..n
SeqUpTo(S, n) == UNION {[1..k -> S] : k \in 0..n}

\* the nearest road point a provider snaps a location to, when it is not the
\* location itself
snap(loc) == <<loc[1], CHOOSE lo \in Lons : lo # loc[2]>>

\* a provider's [path, time, dist] for a path: a leading 0, then per segment
\* the provider's own time and road distance
providerRoute(path) ==
    <<path,
      [i \in 1..Len(path) |-> IF i = 1 THEN R(0) ELSE R((i - 1) * ProviderSecPerSeg)],
      [i \in 1..Len(path) |->
          IF i = 1 THEN R(0)
          ELSE RAdd(geoDistance2D(path[i - 1], path[i]), R(ProviderRoadExtra))]>>

\* the routes a provider may hand back for a request: from the start or the
\* road point next to it, through up to MaxPathLen - 2 further points (each
\* the crossing of the start's and the end's streets), to the end or the
\* road point next to it
providerRoutes(startLoc, endLoc) ==
    LET s == <<startLoc[1], startLoc[2]>>
        e == <<endLoc[1], endLoc[2]>>
    IN  { providerRoute(<<first>> \o via \o <<last>>) :
            first \in {s, snap(s)}, last \in {e, snap(e)},
            via \in SeqUpTo({<<e[1], s[2]>>}, MaxPathLen - 2) }

NoRoute == <<>>
NoCall == <<>>

\* speedMPS is required for the route types computed from the coordinates
\* alone, unless the expected duration stands in for it
timingGiven(routeType, speedMPS, expDurationSec) ==
    lower(routeType) \in {"euclidean2d", "manhattan"}
        => (speedMPS # NoneNum \/ expDurationSec # NoneNum)

\* a provider is queried only on a journey along a supported provider route
routesFor(startLoc, endLoc, routeType, dataProvider) ==
    IF /\ startLoc # endLoc
       /\ lower(routeType) \notin {"euclidean2d", "manhattan"}
       /\ supportedPairing(lower(routeType), lower(dataProvider))
    THEN providerRoutes(startLoc, endLoc)
    ELSE {NoRoute}

Init ==
    /\ op = "idle"
    /\ args = NoCall
    /\ ret = NoCall

CallGetShapepoints2D ==
    /\ op = "idle"
    /\ \E caller \in Callers, startLoc \in Locs, endLoc \in Locs,
          expDurationSec \in DurationOpts,
          speedMPS \in SpeedOpts, routeType \in RouteTypes,
          dataProvider \in DataProviders :
        \E route \in routesFor(startLoc, endLoc, routeType, dataProvider) :
            /\ timingGiven(routeType, speedMPS, expDurationSec)
            /\ args' = [odID |-> caller.odID, objectID |-> caller.objectID,
                        modelFile |-> caller.modelFile,
                        startLoc |-> startLoc, endLoc |-> endLoc,
                        startTimeSec |-> caller.startTimeSec,
                        expDurationSec |-> expDurationSec,
                        routeType |-> routeType, speedMPS |-> speedMPS,
                        display |-> caller.display,
                        dataProvider |-> dataProvider, route |-> route]
            /\ ret' = getShapepoints2D(args')
    /\ op' = "getShapepoints2D"

CallEucGetShapepointsTimeDist ==
    /\ op = "idle"
    /\ \E startLoc \in Locs, endLoc \in Locs, speedMPS \in SpeedOpts,
          expDurationSec \in DurationOpts :
            /\ speedMPS # NoneNum \/ expDurationSec # NoneNum
            /\ args' = [startLoc |-> startLoc, endLoc |-> endLoc,
                        speedMPS |-> speedMPS, expDurationSec |-> expDurationSec]
            /\ ret' = _eucGetShapepointsTimeDist(startLoc, endLoc, speedMPS,
                                                 expDurationSec)
    /\ op' = "_eucGetShapepointsTimeDist"

CallManGetShapepointsTimeDist ==
    /\ op = "idle"
    /\ \E startLoc \in Locs, endLoc \in Locs, speedMPS \in SpeedOpts,
          expDurationSec \in DurationOpts, verticalFirst \in BOOLEAN :
            /\ speedMPS # NoneNum \/ expDurationSec # NoneNum
            /\ args' = [startLoc |-> startLoc, endLoc |-> endLoc,
                        speedMPS |-> speedMPS, expDurationSec |-> expDurationSec,
                        verticalFirst |-> verticalFirst]
            /\ ret' = manPathDist(startLoc, endLoc, verticalFirst)
    /\ op' = "_manGetShapepointsTimeDist"

\* the helper, its path and leg lengths built, computes the leg times and
\* returns, or raises
ManGetShapepointsTimeDistTimes ==
    /\ op = "_manGetShapepointsTimeDist"
    /\ ret.exit = "pending"
    /\ ret' = manTime(ret.path, ret.dist, args.speedMPS, args.expDurationSec)
    /\ UNCHANGED <<op, args>>

-----------------------------------------------------------------------------
(* utilities.py: points, paths and polygons *)

\* the answer of a utility: a value, or None after a printed error
Answer(value) == [returned |-> "value", value |-> value, printed |-> <<>>]
NoAnswer(errorMsg) == [returned |-> "None", value |-> <<>>, printed |-> <<errorMsg>>]
\* the answer of a utility that returns a list of locations
AnswerLocs(locs) == [returned |-> "value", locs |-> locs, printed |-> <<>>]

\* [loc[0], loc[1]]
loc2D(loc) == <<loc[1], loc[2]>>
\* [[locs[i][0], locs[i][1]] for i in range(len(locs))]
locs2D(locs) == [i \in 1..Len(locs) |-> loc2D(locs[i])]

\* twice the signed area of the triangle o, a, b
Cross(o, a, b) == (a[1] - o[1]) * (b[2] - o[2]) - (a[2] - o[2]) * (b[1] - o[1])
Min2(x, y) == IF x <= y THEN x ELSE y
Max2(x, y) == IF x >= y THEN x ELSE y
\* p lies on the closed segment from a to b
OnSegment(p, a, b) ==
    /\ Cross(a, b, p) = 0
    /\ Min2(a[1], b[1]) <= p[1] /\ p[1] <= Max2(a[1], b[1])
    /\ Min2(a[2], b[2]) <= p[2] /\ p[2] <= Max2(a[2], b[2])
\* the vertex after vertex i of an implicitly closed polygon
NextVertex(poly, i) == poly[(i % Len(poly)) + 1]
OnBoundary(p, poly) ==
    \E i \in 1..Len(poly) : OnSegment(p, poly[i], NextVertex(poly, i))
\* edge i crosses the ray that leaves p towards larger latitudes
RayCrosses(p, a, b) ==
    /\ (a[2] > p[2]) # (b[2] > p[2])
    /\ IF b[2] > a[2]
       THEN (p[1] - a[1]) * (b[2] - a[2]) < (p[2] - a[2]) * (b[1] - a[1])
       ELSE (p[1] - a[1]) * (b[2] - a[2]) > (p[2] - a[2]) * (b[1] - a[1])
\* boundary-inclusive point in polygon: on an edge, or an odd number of edges
\* crossed
geoIsPointInPoly(loc, poly) ==
    \/ OnBoundary(loc, poly)
    \/ Cardinality({i \in 1..Len(poly) :
                      RayCrosses(loc, poly[i], NextVertex(poly, i))}) % 2 = 1

\* a polygon of fewer than 3 points is invalid input
valPoly(poly) == Len(poly) >= 3
valIsPointInPoly(loc, poly) ==
    IF valPoly(poly) THEN <<TRUE, "", "">>
    ELSE <<FALSE, "Error: poly must have at least 3 points", "">>

\* mutant: the last vertex of the polygon is left out of poly2D
isPointInPoly_dropsLastVertex(loc, poly) ==
    LET val == valIsPointInPoly(loc, poly)
    IN  IF ~val[1] THEN NoAnswer(val[2])
        ELSE Answer(geoIsPointInPoly(loc2D(loc), SubSeq(locs2D(poly), 1, Len(poly) - 1)))

isPointInPoly(loc, poly) ==
    LET val == valIsPointInPoly(loc, poly)
    IN  IF ~val[1] THEN NoAnswer(val[2])
        ELSE Answer(geoIsPointInPoly(loc2D(loc), locs2D(poly)))

\* the documented answers (utilities.py, Examples 1 to 5 of isPathInPoly):
\* true when every point of the path is inside the polygon and none is on
\* its boundary; what lies between two points of the path is not looked at
geoIsPathInPoly(path, poly) ==
    \A i \in 1..Len(path) :
        geoIsPointInPoly(path[i], poly) /\ ~OnBoundary(path[i], poly)

valIsPathInPoly(path, poly) ==
    IF valPoly(poly) /\ Len(path) >= 2 THEN <<TRUE, "", "">>
    ELSE <<FALSE, "Error: poly must have at least 3 points", "">>

isPathInPoly(path, poly) ==
    LET val == valIsPathInPoly(path, poly)
    IN  IF ~val[1] THEN NoAnswer(val[2])
        ELSE Answer(geoIsPathInPoly(locs2D(path), locs2D(poly)))

\* the coordinates of the documented examples, in tenths of a degree north
\* of 42 N and east of 79 W
GeoCoords == {0, 2, 3, 5, 7, 10, 11}
GeoPoints == {<<la, lo>> : la \in GeoCoords, lo \in GeoCoords}
\* a location as the caller may write it: [lat, lon] or [lat, lon, alt]
Forms(p) == {p, <<p[1], p[2], AltMeters>>}
\* a list of locations as given, and with altitudes that differ
ListForms(ps) == {ps, [i \in 1..Len(ps) |-> <<ps[i][1], ps[i][2], i * AltMeters>>]}

\* the polygons of the examples: the triangle of isPointInPoly, the square
\* and the non-convex region of isPathInPoly, and a polygon of two points
Triangle == << <<0, 10>>, <<10, 0>>, <<0, 0>> >>
Square == << <<0, 10>>, <<10, 10>>, <<10, 0>>, <<0, 0>> >>
NonConvex == << <<0, 10>>, <<10, 10>>, <<2, 5>>, <<10, 0>>, <<0, 0>> >>
TwoPoints == << <<0, 0>>, <<10, 10>> >>
Polys == {Triangle, Square, NonConvex, TwoPoints}

\* the points paths are drawn through
PathPoints == { <<5, 3>>, <<5, 7>>, <<5, 5>>, <<10, 5>>, <<11, 5>>, <<3, 3>> }
Paths == UNION {[1..k -> PathPoints] : k \in 2..MaxPathLen}

CallIsPointInPoly ==
    /\ op = "idle"
    /\ \E p \in GeoPoints, shape \in Polys :
        \E loc \in Forms(p), poly \in ListForms(shape) :
            /\ args' = [loc |-> loc, poly |-> poly]
            /\ ret' = isPointInPoly(loc, poly)
    /\ op' = "isPointInPoly"

CallIsPathInPoly ==
    /\ op = "idle"
    /\ \E line \in Paths, shape \in Polys :
        \E path \in ListForms(line), poly \in ListForms(shape) :
            /\ args' = [path |-> path, poly |-> poly]
            /\ ret' = isPathInPoly(path, poly)
    /\ op' = "isPathInPoly"

\* float('inf')
Infinity == <<1, 0>>
\* x < y for floats, float('inf') included
RLess(x, y) == x[1] * y[2] < y[1] * x[2]
DistSq(p, q) == (p[1] - q[1]) * (p[1] - q[1]) + (p[2] - q[2]) * (p[2] - q[2])
\* metres between two points of the plane, altitude ignored
metres(p, q) == R(ISqrt(MetersPerStep * MetersPerStep * DistSq(p, q)))
\* how far along the line from line[0] to line[1] loc projects, as a
\* numerator over the squared length of the line
Along(loc, line) ==
    (loc[1] - line[1][1]) * (line[2][1] - line[1][1])
        + (loc[2] - line[1][2]) * (line[2][2] - line[1][2])
\* the foot of the perpendicular from loc, for a loc that projects within the line
Foot(loc, line) ==
    LET len2 == DistSq(line[1], line[2])
        t == Along(loc, line)
    IN  <<line[1][1] + (t * (line[2][1] - line[1][1])) \div len2,
          line[1][2] + (t * (line[2][2] - line[1][2])) \div len2>>
\* distance from loc to the nearest point of the line, its ends included
geoMinDistLoc2Line(loc, line) ==
    LET t == Along(loc, line)
    IN  IF t <= 0 THEN metres(loc, line[1])
        ELSE IF t >= DistSq(line[1], line[2]) THEN metres(loc, line[2])
        ELSE metres(loc, Foot(loc, line))
\* the documented answers (utilities.py, Examples 1 to 3 of
\* closestPointLoc2Path): loc itself when it is on the line, the foot of the
\* perpendicular when loc projects within the line, and line[1] as given,
\* altitude included, when it projects before line[0] (Example 3) or beyond
\* line[1]
geoClosestPointLoc2Line(loc, line) ==
    LET t == Along(loc, line)
    IN  IF OnSegment(loc, line[1], line[2]) THEN loc
        ELSE IF t < 0 \/ t > DistSq(line[1], line[2]) THEN line[2]
        ELSE Foot(loc, line)

\* a path needs two points
valClosestPointLoc2Path(loc, path) ==
    IF Len(path) >= 2 THEN <<TRUE, "", "">>
    ELSE <<FALSE, "Error: path must have at least 2 points", "">>

\* lstLine: the lines [path[i - 1], path[i]]
lstLineOf(path) == [i \in 1..(Len(path) - 1) |-> <<path[i], path[i + 1]>>]
\* if (len(minPoint) == 3): minPoint[2] = 0
zeroAltitude(minPoint) ==
    IF Len(minPoint) = 3 THEN <<minPoint[1], minPoint[2], 0>> ELSE minPoint

RECURSIVE closestLoop(_, _, _)
\* distMeters and minPoint after the first n lines
closestLoop(loc, lstLine, n) ==
    IF n = 0 THEN [distMeters |-> Infinity, minPoint |-> <<>>]
    ELSE LET before == closestLoop(loc, lstLine, n - 1)
             tmpDistMeters == geoMinDistLoc2Line(loc, lstLine[n])
         IN  IF RLess(tmpDistMeters, before.distMeters)
             THEN [distMeters |-> tmpDistMeters,
                   minPoint |-> zeroAltitude(geoClosestPointLoc2Line(loc, lstLine[n]))]
             ELSE [before EXCEPT !.minPoint = zeroAltitude(before.minPoint)]

closestPointLoc2Path(loc, path) ==
    LET val == valClosestPointLoc2Path(loc, path)
        lstLine == lstLineOf(path)
        end == closestLoop(loc, lstLine, Len(lstLine))
    IN  IF ~val[1]
        THEN [returned |-> "None", minPoint |-> <<>>, distMeters |-> NoneNum,
              printed |-> <<val[2]>>]
        ELSE [returned |-> "value", minPoint |-> end.minPoint,
              distMeters |-> end.distMeters, printed |-> <<>>]

\* the locations a closest point is asked for
NearPoints == {<<la, lo>> : la \in {3, 5, 7}, lo \in {2, 3, 5, 7, 10}}
\* paths whose lines run along a parallel or a meridian, so that the foot of
\* a perpendicular is a point of the grid; and a path of one point
StraightPaths ==
    { p \in Paths :
        \A i \in 1..(Len(p) - 1) :
            /\ p[i] # p[i + 1]
            /\ p[i][1] = p[i + 1][1] \/ p[i][2] = p[i + 1][2] }
        \cup { << <<5, 5>> >> }

\* the list geoClosestPointLoc2Line hands back for line n: 0 for the list
\* loc, i for the list path[i] (line[1] of line n is path[n + 1]), -1 for a
\* list it builds
minPointIs(loc, lstLine, n) ==
    LET line == lstLine[n]
        t == Along(loc, line)
    IN  IF OnSegment(loc, line[1], line[2]) THEN 0
        ELSE IF t < 0 \/ t > DistSq(line[1], line[2]) THEN n + 1
        ELSE -1

RECURSIVE written(_, _, _)
\* the lists minPoint has named during the first n lines: `minPoint[2] = 0`
\* writes into each of them that has three elements
written(loc, lstLine, n) ==
    IF n = 0 THEN {}
    ELSE LET before == closestLoop(loc, lstLine, n - 1)
             tmpDistMeters == geoMinDistLoc2Line(loc, lstLine[n])
         IN  IF RLess(tmpDistMeters, before.distMeters)
             THEN written(loc, lstLine, n - 1) \cup {minPointIs(loc, lstLine, n)}
             ELSE written(loc, lstLine, n - 1)

\* the caller's loc and path once the call has returned. `minPoint[2] = 0`
\* assigns into the list geoClosestPointLoc2Line returned, in place: where
\* the answer is loc or line[1], that list is the caller's own when the
\* helper returns it as it is (shares), and another when it returns a copy
argsAfterClosestPointLoc2Path(loc, path, shares) ==
    LET lstLine == lstLineOf(path)
        lists == written(loc, lstLine, Len(lstLine))
    IN  IF ~valClosestPointLoc2Path(loc, path)[1] \/ ~shares
        THEN [loc |-> loc, path |-> path]
        ELSE [loc |-> IF 0 \in lists THEN zeroAltitude(loc) ELSE loc,
              path |-> [i \in 1..Len(path) |->
                          IF i \in lists THEN zeroAltitude(path[i]) ELSE path[i]]]

CallClosestPointLoc2Path ==
    /\ op = "idle"
    /\ \E p \in NearPoints, line \in StraightPaths, shares \in BOOLEAN :
        \E loc \in Forms(p), path \in ListForms(line) :
            /\ args' = [loc |-> loc, path |-> path,
                        after |-> argsAfterClosestPointLoc2Path(loc, path, shares)]
            /\ ret' = closestPointLoc2Path(loc, path)
    /\ op' = "closestPointLoc2Path"

-----------------------------------------------------------------------------
(* utilities.py: findLocsAtTime *)

\* 0.0 / 0.0 of two numpy floats
NaN == <<0, 0>>
RSub(x, y) == RAdd(x, RMul(R(-1), y))
\* a + (b - a) * pct, NaN when pct is
interpolate(a, b, pct) ==
    IF pct = NaN THEN NaN ELSE RAdd(R(a), RMul(R(b - a), pct))

valFindLocsAtTime(assignments, timeSec) == <<TRUE, "", "">>

\* asgnCopy: an endTimeSec below 0 becomes +infinity
asgnCopyOf(assignments) ==
    [i \in 1..Len(assignments) |->
        IF RLess(assignments[i].endTimeSec, R(0))
        THEN [assignments[i] EXCEPT !.endTimeSec = Infinity]
        ELSE assignments[i]]

\* mutant: a row without end counts as finished
pctOf_openRowDone(row, timeSec) ==
    IF RLess(row.endTimeSec, Infinity)
    THEN IF row.endTimeSec = row.startTimeSec
         THEN NaN
         ELSE RDiv(RSub(timeSec, row.startTimeSec),
                   RSub(row.endTimeSec, row.startTimeSec))
    ELSE R(1)

\* the share of a row's time that has passed at timeSec
pctOf(row, timeSec) ==
    IF RLess(row.endTimeSec, Infinity)
    THEN IF row.endTimeSec = row.startTimeSec
         THEN NaN
         ELSE RDiv(RSub(timeSec, row.startTimeSec),
                   RSub(row.endTimeSec, row.startTimeSec))
    ELSE R(0)

\* geoPointInDistance2D along geoGetHeading: the point distMeters * pct from
\* the start towards the end
pointAlong(row, pct) ==
    <<interpolate(row.startLat, row.endLat, pct),
      interpolate(row.startLon, row.endLon, pct)>>

\* [newLoc[0], newLoc[1], newAlt] of one matching row
locOfRow(row, timeSec) ==
    LET pct == pctOf(row, timeSec)
        distMeters == geoDistance2D(<<row.startLat, row.startLon>>,
                                    <<row.endLat, row.endLon>>)
        newLoc == IF RIsZero(distMeters)
                  THEN <<R(row.startLat), R(row.startLon)>>
                  ELSE pointAlong(row, pct)
        newAlt == interpolate(row.startAltMeters, row.endAltMeters, pct)
    IN  <<newLoc[1], newLoc[2], newAlt>>

\* tmpAsgn: the rows of s[1..n] of objectID whose times enclose timeSec
RECURSIVE SelectRows(_, _, _, _)
SelectRows(s, n, objectID, timeSec) ==
    IF n = 0 THEN <<>>
    ELSE LET before == SelectRows(s, n - 1, objectID, timeSec)
         IN  IF /\ s[n].objectID = objectID
                /\ RLeq(s[n].startTimeSec, timeSec)
                /\ RLeq(timeSec, s[n].endTimeSec)
             THEN Append(before, s[n])
             ELSE before

\* mutant: several matching rows are reported by the first of them
entryOf_firstMatch(objectID, asgnCopy, timeSec) ==
    LET tmpAsgn == SelectRows(asgnCopy, Len(asgnCopy), objectID, timeSec)
    IN  IF Len(tmpAsgn) = 0
        THEN [kind |-> "None", locs |-> <<>>]
        ELSE [kind |-> "loc", locs |-> <<locOfRow(tmpAsgn[1], timeSec)>>]

\* output[objectID]: None, one [lat, lon, alt], or a list of them
entryOf(objectID, asgnCopy, timeSec) ==
    LET tmpAsgn == SelectRows(asgnCopy, Len(asgnCopy), objectID, timeSec)
        outList == [k \in 1..Len(tmpAsgn) |-> locOfRow(tmpAsgn[k], timeSec)]
    IN  IF Len(tmpAsgn) = 0
        THEN [kind |-> "None", locs |-> <<>>]
        ELSE IF Len(outList) = 1
        THEN [kind |-> "loc", locs |-> outList]
        ELSE [kind |-> "list", locs |-> outList]

findLocsAtTime(assignments, timeSec) ==
    LET asgnCopy == asgnCopyOf(assignments)
        uniqueIDs == {asgnCopy[i].objectID : i \in 1..Len(asgnCopy)}
    IN  [objectID \in uniqueIDs |-> entryOf(objectID, asgnCopy, timeSec)]

\* the rows of the dataframes asked about: two objects; travel from 0 to 2
\* and from 2 to 4 seconds, a stay at second 2, and a row with no end whose
\* end location is not its start
ObjectIDs == {"truck", "drone"}
TimeSpans == {<<0, 2>>, <<2, 4>>, <<2, 2>>, <<0, -1>>}
asgnRow(objectID, span) ==
    LET stays == span[1] = span[2]
    IN  [objectID |-> objectID,
         startTimeSec |-> R(span[1]), endTimeSec |-> R(span[2]),
         startLat |-> 0, startLon |-> 0, startAltMeters |-> 0,
         endLat |-> IF stays THEN 0 ELSE 1, endLon |-> 0,
         endAltMeters |-> IF stays THEN 0 ELSE AltMeters]
AsgnRows == {asgnRow(objectID, span) : objectID \in ObjectIDs, span \in TimeSpans}
Dataframes == UNION {[1..k -> AsgnRows] : k \in 1..MaxRows}
TimesAsked == {R(0), R(1), R(2), R(3)}

CallFindLocsAtTime ==
    /\ op = "idle"
    /\ \E assignments \in Dataframes, timeSec \in TimesAsked :
            /\ args' = [assignments |-> assignments, timeSec |-> timeSec]
            /\ ret' = findLocsAtTime(assignments, timeSec)
    /\ op' = "findLocsAtTime"

\* the route type and data provider of the journeys whose rows are looked
\* up: one computed from the coordinates, one asked of a provider
JourneyRoutes == {<<"manhattan", NoneStr>>, <<"fastest", "OSRM-online">>}
\* the times asked about along rows: where each row starts, ends, and is
\* half done
TimesAlong(rows) ==
    UNION { {rows[i].startTimeSec, rows[i].endTimeSec,
             RDiv(RAdd(rows[i].startTimeSec, rows[i].endTimeSec), R(2))} :
            i \in 1..Len(rows) }

\* findLocsAtTime is asked about the Assignments dataframe that a call of
\* getShapepoints2D for a named object has returned
CallFindLocsAtTimeAlongJourney ==
    /\ op = "idle"
    /\ \E caller \in {c \in Callers : c.objectID # NoneStr},
          startLoc \in Locs, endLoc \in Locs,
          expDurationSec \in DurationOpts, jr \in JourneyRoutes :
        \E route \in routesFor(startLoc, endLoc, jr[1], jr[2]) :
            LET assignments ==
                    getShapepoints2D(
                        [odID |-> caller.odID, objectID |-> caller.objectID,
                         modelFile |-> caller.modelFile,
                         startLoc |-> startLoc, endLoc |-> endLoc,
                         startTimeSec |-> caller.startTimeSec,
                         expDurationSec |-> expDurationSec,
                         routeType |-> jr[1], speedMPS |-> R(SlowMPS),
                         display |-> caller.display,
                         dataProvider |-> jr[2], route |-> route])
            IN  /\ assignments.returned = "Assignments"
                /\ \E timeSec \in TimesAlong(assignments.rows) :
                    /\ args' = [assignments |-> assignments.rows, timeSec |-> timeSec]
                    /\ ret' = findLocsAtTime(assignments.rows, timeSec)
    /\ op' = "findLocsAtTime"

-----------------------------------------------------------------------------
(* utilities.py: getConvexHull *)

\* 0.0001 degrees, in half ten-thousandths of a degree
HullTolerance == 2

\* the corners of the convex hull of the points ps: the points outside every
\* line and every triangle of the other points
IsCorner(p, ps) ==
    LET others == {ps[i] : i \in 1..Len(ps)} \ {p}
    IN  /\ \A a, b \in others : ~OnSegment(p, a, b)
        /\ \A a, b, c \in others :
              Cross(a, b, c) # 0 => ~( \/ /\ Cross(a, b, p) >= 0 /\ Cross(b, c, p) >= 0
                                         /\ Cross(c, a, p) >= 0
                                      \/ /\ Cross(a, b, p) <= 0 /\ Cross(b, c, p) <= 0
                                         /\ Cross(c, a, p) <= 0 )
RECURSIVE inOrder(_, _)
\* the members of idx among 1..n, in ascending order
inOrder(idx, n) ==
    IF n = 0 THEN <<>>
    ELSE IF n \in idx THEN Append(inOrder(idx, n - 1), n)
    ELSE inOrder(idx, n - 1)

\* scipy.spatial.ConvexHull(locs2D).vertices: the index of each corner, one
\* index for points given more than once
hullVertices(ps) ==
    inOrder({ i \in 1..Len(ps) :
                /\ IsCorner(ps[i], ps)
                /\ \A j \in 1..(i - 1) : ps[j] # ps[i] },
            Len(ps))

valGetConvexHull(locs) ==
    IF Len(locs) >= 3 THEN <<TRUE, "", "">>
    ELSE <<FALSE, "Error: locs must have at least 3 locations", "">>

\* abs(ch2D[i][0] - locs2D[j][0]) < 0.0001 and abs(ch2D[i][1] - locs2D[j][1]) < 0.0001
matchesVertex(v, q) ==
    Abs(v[1] - q[1]) < HullTolerance /\ Abs(v[2] - q[2]) < HullTolerance

RECURSIVE rematch(_, _, _, _, _)
\* ch after the loops over i and j have run on from (i, j)
rematch(ch2D, ps, locs, i, j) ==
    IF i > Len(ch2D) THEN <<>>
    ELSE IF j > Len(ps) THEN rematch(ch2D, ps, locs, i + 1, 1)
    ELSE (IF matchesVertex(ch2D[i], ps[j]) THEN <<locs[j]>> ELSE <<>>)
            \o rematch(ch2D, ps, locs, i, j + 1)

getConvexHull(locs) ==
    LET val == valGetConvexHull(locs)
        ps == locs2D(locs)
        vertices == hullVertices(ps)
        ch2D == [k \in 1..Len(vertices) |-> locs[vertices[k]]]
    IN  IF ~val[1] THEN NoAnswer(val[2])
        ELSE AnswerLocs(rematch(ch2D, ps, locs, 1, 1))

\* the points hulls are asked of, in half ten-thousandths of a degree: the
\* corners of a square, a point next to one corner, the middle of one side,
\* and a point inside
HullPoints == { <<0, 0>>, <<0, 8>>, <<8, 0>>, <<8, 8>>, <<1, 0>>, <<4, 0>>, <<3, 3>> }
\* lists of locations that do not all lie on one line
HullInputs ==
    { ps \in UNION {[1..k -> HullPoints] : k \in 3..MaxLocs} :
        \E i, j, k \in 1..Len(ps) : Cross(ps[i], ps[j], ps[k]) # 0 }

CallGetConvexHull ==
    /\ op = "idle"
    /\ \E ps \in HullInputs :
        \E locs \in ListForms(ps) :
            /\ args' = [locs |-> locs]
            /\ ret' = getConvexHull(locs)
    /\ op' = "getConvexHull"

------------------------------------------------------------------------------
(* utilities.py: getMapBoundary *)

\* latitudes and longitudes are counted here in ten-thousandths of a degree
\* 0.0001 degrees: a narrower spread of latitudes or longitudes is widened
SpreadTolerance == 1
\* 0.05 degrees, added on both sides of a spread narrower than the tolerance
NarrowMargin == 500
\* 0.01 degrees, added on every side
Margin == 100

\* nodes, arcs or locs left out of the call (None); an empty dataframe or an
\* empty list is not among the inputs
NoneList == <<>>

RECURSIVE maxOf(_)
\* max(xs) of a list that is not empty
maxOf(xs) == IF Len(xs) = 1 THEN xs[1] ELSE Max2(xs[1], maxOf(Tail(xs)))
RECURSIVE minOf(_)
\* min(xs) of a list that is not empty
minOf(xs) == IF Len(xs) = 1 THEN xs[1] ELSE Min2(xs[1], minOf(Tail(xs)))

\* nodes, arcs and locs cannot be None at the same time
valGetMapBoundary(nodes, arcs, locs) ==
    IF nodes = NoneList /\ arcs = NoneList /\ locs = NoneList
    THEN <<FALSE, "Error: nodes, arcs and locs cannot all be None", "">>
    ELSE <<TRUE, "", "">>

\* column k of the rows of a dataframe, or coordinate k of the locations of
\* a list; nothing when it is None
column(rows, k) == [i \in 1..Len(rows) |-> rows[i][k]]

\* a row of nodes is <<lat, lon>>, a row of arcs is <<startLat, startLon,
\* endLat, endLon>>
allLatsOf(nodes, arcs, locs) ==
    column(nodes, 1) \o column(arcs, 1) \o column(arcs, 3) \o column(locs, 1)
allLonsOf(nodes, arcs, locs) ==
    column(nodes, 2) \o column(arcs, 2) \o column(arcs, 4) \o column(locs, 2)

\* <<low, high>> after the widening of a narrow spread and the margin
padded(low, high) ==
    LET narrow == Abs(high - low) < SpreadTolerance
        lo == IF narrow THEN low - NarrowMargin ELSE low
        hi == IF narrow THEN high + NarrowMargin ELSE high
    IN  <<lo - Margin, hi + Margin>>

getMapBoundary(nodes, arcs, locs) ==
    LET val == valGetMapBoundary(nodes, arcs, locs)
        allLats == allLatsOf(nodes, arcs, locs)
        allLons == allLonsOf(nodes, arcs, locs)
        lat == padded(minOf(allLats), maxOf(allLats))
        lon == padded(minOf(allLons), maxOf(allLons))
    IN  IF ~val[1] THEN NoAnswer(val[2])
        ELSE AnswerLocs(<< <<lat[1], lon[2]>>, <<lat[2], lon[1]>> >>)

\* the places on the map, in ten-thousandths of a degree
MapPoints == { <<0, 0>>, <<0, 5000>>, <<3000, 5000>> }
NodesGiven == {NoneList} \cup (UNION {[1..k -> MapPoints] : k \in 1..MaxNodes})
ArcsGiven ==
    {NoneList} \cup {<< <<s[1], s[2], e[1], e[2]>> >> : s \in MapPoints, e \in MapPoints}
LocsGiven ==
    {NoneList} \cup UNION {ListForms(ps) : ps \in UNION {[1..k -> MapPoints] : k \in 1..MaxNodes}}

CallGetMapBoundary ==
    /\ op = "idle"
    /\ \E nodes \in NodesGiven, arcs \in ArcsGiven, locs \in LocsGiven :
        /\ args' = [nodes |-> nodes, arcs |-> arcs, locs |-> locs]
        /\ ret' = getMapBoundary(nodes, arcs, locs)
    /\ op' = "getMapBoundary"

------------------------------------------------------------------------------
(* utilities.py: time and distance matrices *)

\* a Python dictionary is the sequence of its <<key, value>> entries in the
\* order of insertion, no key twice; a matrix dataframe is its row labels,
\* its column labels and the value of every cell, NaN for a cell never set

\* the answers of the two conversions
AnswerDataframe(dataframe) ==
    [returned |-> "value", dataframe |-> dataframe, printed |-> <<>>]
AnswerDictionary(dictionary) ==
    [returned |-> "value", dictionary |-> dictionary, printed |-> <<>>]

\* pd.DataFrame(columns=columns, index=rows), where rows and columns are
\* what list.sort() returned: None, so the frame has no rows and no columns
emptyDataframe == [index |-> <<>>, columns |-> <<>>, at |-> <<>>]

hasLabel(labels, label) == \E i \in 1..Len(labels) : labels[i] = label
\* the labels, with label appended unless it is among them
withLabel(labels, label) ==
    IF hasLabel(labels, label) THEN labels ELSE Append(labels, label)

\* the same matrix with the value written to the cell of keys[1] and keys[0]
\* instead
setAt_transposed(dataframe, keys, value) ==
    LET index == withLabel(dataframe.index, keys[2])
        columns == withLabel(dataframe.columns, keys[1])
        cells == {<<index[i], columns[j]>> : i \in 1..Len(index), j \in 1..Len(columns)}
    IN  [index |-> index, columns |-> columns,
         at |-> [rc \in cells |->
                    IF rc = <<keys[2], keys[1]>> THEN value
                    ELSE IF hasLabel(dataframe.index, rc[1])
                            /\ hasLabel(dataframe.columns, rc[2])
                    THEN dataframe.at[rc]
                    ELSE NaN]]

\* dataframe.at[keys[0], keys[1]] = value: a label the frame does not have
\* is added at the end of its axis, the new cells holding NaN
setAt(dataframe, keys, value) ==
    LET index == withLabel(dataframe.index, keys[1])
        columns == withLabel(dataframe.columns, keys[2])
        cells == {<<index[i], columns[j]>> : i \in 1..Len(index), j \in 1..Len(columns)}
    IN  [index |-> index, columns |-> columns,
         at |-> [rc \in cells |->
                    IF rc = <<keys[1], keys[2]>> THEN value
                    ELSE IF hasLabel(dataframe.index, rc[1])
                            /\ hasLabel(dataframe.columns, rc[2])
                    THEN dataframe.at[rc]
                    ELSE NaN]]

RECURSIVE fillDataframe(_, _)
\* the frame after the loop "for keys in dictionary" has run over the first
\* n entries
fillDataframe(dictionary, n) ==
    IF n = 0 THEN emptyDataframe
    ELSE setAt(fillDataframe(dictionary, n - 1), dictionary[n][1], dictionary[n][2])

convertMatricesDictionaryToDataframe(dictionary) ==
    IF \E n \in 1..Len(dictionary) : Len(dictionary[n][1]) # 2
    THEN NoAnswer("Error: This dictionary is not a legitimate matrix, the key values should be pairs.")
    ELSE AnswerDataframe(fillDataframe(dictionary, Len(dictionary)))

\* dictionary[key] = value: the value of a key already there is replaced
dictSet(dictionary, key, value) ==
    IF \E n \in 1..Len(dictionary) : dictionary[n][1] = key
    THEN [n \in 1..Len(dictionary) |->
            IF dictionary[n][1] = key THEN <<key, value>> ELSE dictionary[n]]
    ELSE Append(dictionary, <<key, value>>)

RECURSIVE readDataframe(_, _, _)
\* the dictionary after the loops over i and j have run up to row i, column j
readDataframe(dataframe, i, j) ==
    IF i = 0 THEN <<>>
    ELSE IF j = 0 THEN readDataframe(dataframe, i - 1, Len(dataframe.columns))
    ELSE dictSet(readDataframe(dataframe, i, j - 1),
                 <<dataframe.index[i], dataframe.columns[j]>>,
                 dataframe.at[<<dataframe.index[i], dataframe.columns[j]>>])

convertMatricesDataframeToDictionary(dataframe) ==
    AnswerDictionary(
        readDataframe(dataframe, Len(dataframe.index), Len(dataframe.columns)))

\* the locations a matrix is about, the times it holds, and a key that is
\* not a pair
MatrixIDs == {1, 2}
MatrixValues == {R(0), R(5)}
MatrixKeys == {<<i, j>> : i \in MatrixIDs, j \in MatrixIDs} \cup {<<1, 2, 1>>}
\* dictionaries of up to MaxEntries entries, in every order of insertion
Dictionaries ==
    { d \in UNION {[1..n -> MatrixKeys \X MatrixValues] : n \in 1..MaxEntries} :
        \A m, n \in 1..Len(d) : m # n => d[m][1] # d[n][1] }

CallConvertMatricesDictionaryToDataframe ==
    /\ op = "idle"
    /\ \E dictionary \in Dictionaries :
        /\ args' = [dictionary |-> dictionary]
        /\ ret' = convertMatricesDictionaryToDataframe(dictionary)
    /\ op' = "convertMatricesDictionaryToDataframe"

\* the dataframe just made is converted back; args keeps the dictionary it
\* was made from
CallConvertMatricesDataframeToDictionary ==
    /\ op = "convertMatricesDictionaryToDataframe"
    /\ ret.returned = "value"
    /\ args' = [dictionary |-> args.dictionary, dataframe |-> ret.dataframe]
    /\ ret' = convertMatricesDataframeToDictionary(ret.dataframe)
    /\ op' = "convertMatricesDataframeToDictionary"

------------------------------------------------------------------------------
(* utilities.py: importDataFromCSV *)

\* what pd.read_csv finds at filename: no file it can open (IOError), text it
\* cannot parse (ValueError), or a table; a table holds nodes, arcs,
\* assignments or a matrix, and the validation of its kind may pass with a
\* warning
CsvKinds == {"nodes", "arcs", "assignments", "matrix"}
CsvFiles ==
    { [state |-> "missing", holds |-> NoneStr, warned |-> FALSE],
      [state |-> "garbled", holds |-> NoneStr, warned |-> FALSE] }
    \cup { [state |-> "table", holds |-> k, warned |-> w] :
             k \in CsvKinds, w \in BOOLEAN }

\* valNodes(data), valArcs(data), valAssignments(data): the table read must
\* be of the kind asked for
valData(dataType, data) ==
    IF data.holds # dataType
    THEN <<FALSE, "Error: the data are not valid " \o dataType \o ".", "">>
    ELSE IF data.warned THEN <<TRUE, "", "Warning: " \o dataType \o " have a warning.">>
    ELSE <<TRUE, "", "">>

\* how a call of importDataFromCSV ends: with a value or None returned, or
\* with an exception raised to the caller
Imported(data) ==
    [returned |-> "value", data |-> data, printed |-> <<>>, exc |-> "none"]
NotImported(msg) ==
    [returned |-> "None", data |-> NoneStr, printed |-> <<msg>>, exc |-> "none"]
\* "return data" at the end of the function, when no branch has assigned data
returnUnbound(msg) ==
    [returned |-> "raise", data |-> NoneStr, printed |-> <<msg>>,
     exc |-> "UnboundLocalError"]

importDataFromCSV(dataType, file) ==
    LET type == lower(dataType)
        val == valData(type, file)
    IN  IF type \in {"nodes", "arcs", "assignments"}
        THEN \* data = pd.read_csv(filename, index_col=0)
             IF file.state = "garbled" THEN returnUnbound("Error: Cannot import file, check dataType")
             ELSE IF file.state = "missing" THEN returnUnbound("Error: Cannot import file")
             ELSE IF val[1] /\ val[3] = "" THEN Imported(file.holds)
             ELSE NotImported(val[2] \o "  was not successfully imported.")
        ELSE IF type = "matrix"
        THEN IF file.state = "garbled" THEN returnUnbound("Error: Cannot import file, check dataType")
             ELSE IF file.state = "missing" THEN returnUnbound("Error: Cannot import file")
             \* dataframe.columns.astype(int) raises ValueError on column
             \* names that are not integers
             ELSE IF file.holds # "matrix"
             THEN returnUnbound("Error: Cannot import file, check dataType")
             ELSE Imported(file.holds)
        ELSE returnUnbound("Error: data type not supported.")

\* the data types of the docstring, one written with a capital, and one
\* that is not supported
DataTypes == {"nodes", "Arcs", "assignments", "matrix", "polygons"}

CallImportDataFromCSV ==
    /\ op = "idle"
    /\ \E dataType \in DataTypes, file \in CsvFiles :
        /\ args' = [dataType |-> dataType, file |-> file]
        /\ ret' = importDataFromCSV(dataType, file)
    /\ op' = "importDataFromCSV"

------------------------------------------------------------------------------
(* utilities.py: createGantt *)

\* the chart is asked for with objectIDorder and separateByModelFile left at
\* their defaults: one bar per objectID; a cell of a bar is what one call of
\* ax.broken_barh draws

\* max(assignments['endTimeSec'])
RECURSIVE maxEndOf(_, _)
maxEndOf(assignments, n) ==
    IF n = 1 THEN assignments[1].endTimeSec
    ELSE LET before == maxEndOf(assignments, n - 1)
         IN  IF RLeq(before, assignments[n].endTimeSec)
             THEN assignments[n].endTimeSec ELSE before

RECURSIVE rowsOf(_, _, _)
\* dummy: the rows of assignments[1..n] of the bar myLabel, in their order
rowsOf(assignments, n, myLabel) ==
    IF n = 0 THEN <<>>
    ELSE IF assignments[n].objectID = myLabel
    THEN Append(rowsOf(assignments, n - 1, myLabel), assignments[n])
    ELSE rowsOf(assignments, n - 1, myLabel)

\* dummy.loc[dummy['endTimeSec'] < 0, 'endTimeSec'] = maxEnd
withEndTimes(dummy, maxEnd) ==
    [j \in 1..Len(dummy) |->
        IF RLess(dummy[j].endTimeSec, R(0))
        THEN [dummy[j] EXCEPT !.endTimeSec = maxEnd] ELSE dummy[j]]

\* if not splitOnColorChange and missingColor is not None, the rows without
\* a colour get missingColor
withColors(dummy, splitOnColorChange, missingColor) ==
    [j \in 1..Len(dummy) |->
        IF ~splitOnColorChange /\ missingColor # NoneStr
           /\ dummy[j].ganttColor = NoneStr
        THEN [dummy[j] EXCEPT !.ganttColor = missingColor] ELSE dummy[j]]

\* row a sorts before row b by odID, then startTimeSec
sortsBefore(a, b) ==
    \/ a.odID < b.odID
    \/ a.odID = b.odID /\ RLess(a.startTimeSec, b.startTimeSec)

RECURSIVE sortRows(_, _)
\* dummy.sort_values(by=['odID', 'startTimeSec']) of dummy[1..n]: rows that
\* tie keep their order
sortRows(dummy, n) ==
    IF n = 0 THEN <<>>
    ELSE LET before == sortRows(dummy, n - 1)
             k == Cardinality({j \in 1..(n - 1) : ~sortsBefore(dummy[n], before[j])})
         IN  [j \in 1..n |->
                IF j <= k THEN before[j]
                ELSE IF j = k + 1 THEN dummy[n]
                ELSE before[j - 1]]

\* the ending condition of a cell at row j: the last row has no next row,
\* and its next_ values are NaN
cellEnds(dummy, j, mergeByodID, splitOnColorChange) ==
    \/ ~mergeByodID
    \/ j = Len(dummy)
    \/ dummy[j].endTimeSec # dummy[j + 1].startTimeSec
    \/ dummy[j].odID # dummy[j + 1].odID
    \/ splitOnColorChange /\ dummy[j].ganttColor # dummy[j + 1].ganttColor

RECURSIVE cellsFrom(_, _, _, _, _, _, _)
\* the cells drawn by the loop from row j on; start_x is None between cells
cellsFrom(dummy, j, start_x, myColor, mergeByodID, splitOnColorChange, missingColor) ==
    IF j > Len(dummy) THEN <<>>
    ELSE LET opens == start_x = NoneNum
             \* break: no colour for the cell and no default
             breaks == /\ opens
                       /\ dummy[j].ganttColor = NoneStr
                       /\ missingColor = NoneStr
             x == IF opens THEN dummy[j].startTimeSec ELSE start_x
             fc == IF ~opens THEN myColor
                   ELSE IF dummy[j].ganttColor = NoneStr THEN missingColor
                   ELSE dummy[j].ganttColor
         IN  IF breaks THEN <<>>
             ELSE IF cellEnds(dummy, j, mergeByodID, splitOnColorChange)
             THEN << [start_x |-> x,
                      duration |-> RSub(dummy[j].endTimeSec, x),
                      fc |-> fc] >>
                  \o cellsFrom(dummy, j + 1, NoneNum, NoneStr,
                               mergeByodID, splitOnColorChange, missingColor)
             ELSE cellsFrom(dummy, j + 1, x, fc,
                            mergeByodID, splitOnColorChange, missingColor)

\* the rows of one bar as the loop reads them
barRows(assignments, myLabel, splitOnColorChange, missingColor) ==
    LET maxEnd == maxEndOf(assignments, Len(assignments))
        dummy == withColors(
                    withEndTimes(rowsOf(assignments, Len(assignments), myLabel), maxEnd),
                    splitOnColorChange, missingColor)
    IN  sortRows(dummy, Len(dummy))

createGantt(assignments, mergeByodID, splitOnColorChange, missingColor) ==
    LET yLabels == {assignments[i].objectID : i \in 1..Len(assignments)}
    IN  [returned |-> "fig",
         bars |-> [myLabel \in yLabels |->
                    cellsFrom(barRows(assignments, myLabel, splitOnColorChange, missingColor),
                              1, NoneNum, NoneStr,
                              mergeByodID, splitOnColorChange, missingColor)],
         printed |-> <<>>]

\* the rows charted: a truck's trip 1 from 0 to 2 and on from 2 to 4 seconds
\* in one colour, the second leg also in another colour, without colour, and
\* as trip 2; a wait without end and without colour; and a drone
ganttRow(objectID, odID, span, ganttColor) ==
    [objectID |-> objectID, odID |-> odID,
     startTimeSec |-> R(span[1]), endTimeSec |-> R(span[2]),
     ganttColor |-> ganttColor]
GanttRows ==
    { ganttRow("truck", 1, <<0, 2>>, "red"),
      ganttRow("truck", 1, <<2, 4>>, "red"),
      ganttRow("truck", 1, <<2, 4>>, "blue"),
      ganttRow("truck", 1, <<2, 4>>, NoneStr),
      ganttRow("truck", 2, <<2, 4>>, "red"),
      ganttRow("truck", 1, <<4, -1>>, "red"),
      ganttRow("drone", 1, <<0, 5>>, "red") }
GanttCharts == UNION {[1..k -> GanttRows] : k \in 1..MaxRows}
MissingColors == {"lightgray", NoneStr}

CallCreateGantt ==
    /\ op = "idle"
    /\ \E assignments \in GanttCharts, mergeByodID \in BOOLEAN,
          splitOnColorChange \in BOOLEAN, missingColor \in MissingColors :
        /\ args' = [assignments |-> assignments, mergeByodID |-> mergeByodID,
                    splitOnColorChange |-> splitOnColorChange,
                    missingColor |-> missingColor]
        /\ ret' = createGantt(assignments, mergeByodID, splitOnColorChange, missingColor)
    /\ op' = "createGantt"

\* the call returns to its caller; nothing of it persists
Return ==
    /\ op # "idle"
    /\ op = "_manGetShapepointsTimeDist" => ret.exit # "pending"
    /\ op' = "idle"
    /\ args' = NoCall
    /\ ret' = NoCall

Next ==
    \/ CallGetShapepoints2D
    \/ CallEucGetShapepointsTimeDist
    \/ CallManGetShapepointsTimeDist
    \/ ManGetShapepointsTimeDistTimes
    \/ CallIsPointInPoly
    \/ CallIsPathInPoly
    \/ CallClosestPointLoc2Path
    \/ CallFindLocsAtTime
    \/ CallFindLocsAtTimeAlongJourney
    \/ CallGetConvexHull
    \/ CallGetMapBoundary
    \/ CallConvertMatricesDictionaryToDataframe
    \/ CallConvertMatricesDataframeToDictionary
    \/ CallImportDataFromCSV
    \/ CallCreateGantt
    \/ Return

Spec == Init /\ [][Next]_vars

\* the utilities alone
UtilNext ==
    \/ CallIsPointInPoly
    \/ CallIsPathInPoly
    \/ CallClosestPointLoc2Path
    \/ CallFindLocsAtTime
    \/ CallFindLocsAtTimeAlongJourney
    \/ CallGetConvexHull
    \/ CallGetMapBoundary
    \/ CallConvertMatricesDictionaryToDataframe
    \/ CallConvertMatricesDataframeToDictionary
    \/ CallImportDataFromCSV
    \/ CallCreateGantt
    \/ Return

UtilSpec == Init /\ [][UtilNext]_vars

-----------------------------------------------------------------------------
(* Properties of getShapepoints2D *)

\* a finished call of getShapepoints2D
AssemblerCall == op = "getShapepoints2D"
\* ... whose start and end differ as lists, with a handler for its route type
JourneyCall ==
    /\ AssemblerCall
    /\ args.startLoc # args.endLoc
    /\ routeBranch(lower(args.routeType), lower(args.dataProvider))
         \notin {"return", "KeyError"}
DirectRoute == lower(args.routeType) \in {"euclidean2d", "manhattan"}
LastRow == ret.rows[Len(ret.rows)]

\* C1: a journey along a supported route type with expDurationSec = D given
\* returns rows, and the last row ends at startTimeSec + D.
C1_ArrivesAtExpectedTime ==
    (JourneyCall /\ args.expDurationSec # NoneNum)
        => /\ ret.returned = "Assignments"
           /\ Len(ret.rows) >= 1
           /\ LastRow.endTimeSec = RAdd(args.startTimeSec, args.expDurationSec)

\* the caller's coordinates of a location: a missing altitude reads as 0
LatOf(loc) == loc[1]
LonOf(loc) == loc[2]
AltOf(loc) == IF Len(loc) = 3 THEN loc[3] ELSE 0
StartsAt(row, loc) ==
    row.startLat = LatOf(loc) /\ row.startLon = LonOf(loc)
        /\ row.startAltMeters = AltOf(loc)
EndsAt(row, loc) ==
    row.endLat = LatOf(loc) /\ row.endLon = LonOf(loc)
        /\ row.endAltMeters = AltOf(loc)
RouteHandlers ==
    {"_eucGetShapepointsTimeDist", "_manGetShapepointsTimeDist",
     "pgrGetShapepointsTimeDist", "osrmGetShapepointsTimeDist",
     "mqGetShapepointsTimeDist", "orsGetShapepointsTimeDist",
     "distributeTimeDist"}
\* the stationary row of the call, but for its route type and validation
IsStationaryOutcome ==
    /\ ret.returned = "Assignments"
    /\ Len(ret.rows) = 1
    /\ StartsAt(ret.rows[1], args.startLoc)
    /\ EndsAt(ret.rows[1], args.startLoc)
    /\ ret.rows[1].startTimeSec = args.startTimeSec
    /\ ret.rows[1].endTimeSec =
          IF args.expDurationSec # NoneNum
          THEN RAdd(args.startTimeSec, args.expDurationSec)
          ELSE args.startTimeSec
    /\ \A k \in 1..Len(ret.invoked) : ret.invoked[k] \notin RouteHandlers
HasHandler ==
    routeBranch(lower(args.routeType), lower(args.dataProvider))
        \notin {"return", "KeyError"}

\* C2 as stated: every call with startLoc equal to endLoc returns exactly
\* one row from startLoc to startLoc, starting at startTimeSec and ending at
\* startTimeSec + expDurationSec (at startTimeSec without expDurationSec),
\* and invokes neither a direct rule nor a provider.
C2_StationaryAlwaysOneRow ==
    (AssemblerCall /\ args.startLoc = args.endLoc) => IsStationaryOutcome

\* C2 amended: the same, for calls whose route-type/data-provider pairing is
\* supported (the others are rejected by validation before the start and end
\* are compared).
C2_StationaryOneRow ==
    (AssemblerCall /\ args.startLoc = args.endLoc /\ HasHandler)
        => IsStationaryOutcome

C2_Witness ==
    /\ AssemblerCall /\ args.startLoc = args.endLoc /\ HasHandler
    /\ args.expDurationSec # NoneNum
    /\ args.startTimeSec # R(0)
    /\ Len(ret.rows) = 1
    /\ ret.rows[1].endTimeSec # ret.rows[1].startTimeSec

\* C3: a call whose route-type/data-provider pairing matches no branch of
\* the handler chain prints an error message and returns None: no rows, no
\* exception, no handler invoked.
C3_UnsupportedSignalled ==
    (AssemblerCall /\ ~HasHandler)
        => /\ ret.returned = "None"
           /\ ret.exc = "none"
           /\ ret.rows = <<>>
           /\ Len(ret.printed) = 1
           /\ ret.printed[1] # ""
           /\ ret.printed[1] \notin {"Message: origin", "Message: destination"}
           /\ \A k \in 1..Len(ret.invoked) : ret.invoked[k] \notin RouteHandlers

C3_Witness ==
    /\ AssemblerCall /\ ~HasHandler
    /\ args.startLoc # args.endLoc
    /\ lower(args.routeType) = "shortest"
    /\ lower(args.dataProvider) = "osrm-online"
    /\ ret.returned = "None"

\* the path of a journey: the two direct rules as documented, else the
\* provider's path
ExpPath ==
    IF lower(args.routeType) = "euclidean2d"
    THEN <<args.startLoc, args.endLoc>>
    ELSE IF lower(args.routeType) = "manhattan"
    THEN <<args.startLoc, <<args.endLoc[1], args.startLoc[2]>>, args.endLoc>>
    ELSE args.route[1]
ExpN == Len(ExpPath)
\* the geodesic length of segment i (from point i to point i + 1)
ExpLen(i) == geoDistance2D(ExpPath[i], ExpPath[i + 1])
RECURSIVE ExpLenTo(_)
ExpLenTo(k) == IF k = 0 THEN R(0) ELSE RAdd(ExpLenTo(k - 1), ExpLen(k))
\* the route length the handler reports: geodesic for the direct rules, the
\* provider's road distances otherwise
ExpReportedLength ==
    IF DirectRoute THEN ExpLenTo(ExpN - 1) ELSE RSum(args.route[3], ExpN)
\* the duration the times are redistributed to, if any
ExpTarget ==
    IF args.expDurationSec # NoneNum THEN args.expDurationSec
    ELSE IF args.speedMPS # NoneNum THEN RDiv(ExpReportedLength, args.speedMPS)
    ELSE NoneNum
\* the time of segment i
ExpSegTime(i) ==
    IF ExpTarget = NoneNum THEN args.route[2][i + 1]
    ELSE IF RIsZero(ExpLenTo(ExpN - 1))
    THEN (IF i = ExpN - 1 THEN ExpTarget ELSE R(0))
    ELSE RDiv(RMul(ExpTarget, ExpLen(i)), ExpLenTo(ExpN - 1))
RECURSIVE ExpTimeAt(_)
\* the cumulative time at point k of the path
ExpTimeAt(k) ==
    IF k = 1 THEN args.startTimeSec
    ELSE RAdd(ExpTimeAt(k - 1), ExpSegTime(k - 1))

\* a journey whose route handler handed back its path
RoutedCall == JourneyCall /\ ret.returned = "Assignments"

\* one row per consecutive pair of points, in path order, with the
\* cumulative times, and modelFile as File(args.modelFile)
RowsFollowPath(File(_)) ==
    /\ Len(ret.rows) = ExpN - 1
    /\ \A i \in 1..(ExpN - 1) :
          /\ StartsAt(ret.rows[i], ExpPath[i])
          /\ EndsAt(ret.rows[i], ExpPath[i + 1])
          /\ ret.rows[i].startTimeSec = ExpTimeAt(i)
          /\ ret.rows[i].endTimeSec = ExpTimeAt(i + 1)
          /\ ret.rows[i].odID = args.odID
          /\ ret.rows[i].objectID = args.objectID
          /\ ret.rows[i].modelFile = File(args.modelFile)
          /\ ret.rows[i].display = args.display

Unchanged(f) == f

\* C4 as stated: for a path of N points the call returns N - 1 rows in path
\* order, row i from path[i-1] to path[i] with the cumulative times at those
\* points, and odID, objectID, modelFile and the display attributes copied
\* unchanged.
C4_RowsCopyModelFile == RoutedCall => RowsFollowPath(Unchanged)

\* C4 amended: the same, with the rows' modelFile being the caller's with
\* every backslash replaced by a slash.
C4_RowsFollowPath == RoutedCall => RowsFollowPath(replaceBackslashToSlash)

C4_Witness ==
    /\ RoutedCall
    /\ ~DirectRoute
    /\ Len(ret.rows) = 2
    /\ args.modelFile # NoneFile
    /\ ret.rows[2].modelFile # args.modelFile
    /\ ret.rows[2].startTimeSec # ret.rows[1].startTimeSec
    /\ ret.rows[2].endAltMeters = 0

\* C5: with expDurationSec given, the outcome (rows returned, or none) is the
\* same for every speedMPS, given or omitted.
C5_DurationOverridesSpeed ==
    (AssemblerCall /\ args.expDurationSec # NoneNum)
        => \A s \in (SpeedOpts \cup {R(FastMPS)}) \ {args.speedMPS} :
              LET other == getShapepoints2D([args EXCEPT !.speedMPS = s])
              IN  /\ other.rows = ret.rows
                  /\ other.returned = ret.returned

C5_Witness ==
    /\ RoutedCall
    /\ args.expDurationSec # NoneNum
    /\ args.speedMPS = R(SlowMPS)
    /\ Len(ret.rows) = 2
    /\ LastRow.endTimeSec = RAdd(args.startTimeSec, args.expDurationSec)
    /\ ExpReportedLength # RMul(args.expDurationSec, args.speedMPS)

\* the requested start or end is at or beyond the tolerance from the
\* provider's first or last point
OriginOff ==
    RLeq(R(VRV_DEFAULT_DISTANCE_ERROR_TOLERANCE),
         geoDistance2D(args.startLoc, args.route[1][1]))
DestinationOff ==
    RLeq(R(VRV_DEFAULT_DISTANCE_ERROR_TOLERANCE),
         geoDistance2D(args.route[1][Len(args.route[1])], args.endLoc))
\* the locations within the tolerance of point p
Near(p) ==
    {l \in Locs : ~RLeq(R(VRV_DEFAULT_DISTANCE_ERROR_TOLERANCE), geoDistance2D(l, p))}

\* C6: a provider journey whose path starts or ends at or beyond the
\* tolerance from the requested start or end prints one message per
\* mismatch and returns all rows, built from the provider's path: the rows
\* any request within the tolerance gets for the same route.
C6_MismatchOnlyReported ==
    (JourneyCall /\ ~DirectRoute /\ (OriginOff \/ DestinationOff))
        => /\ ret.returned = "Assignments"
           /\ ret.exc = "none"
           /\ ret.printed =
                (IF OriginOff THEN <<"Message: origin">> ELSE <<>>)
                \o (IF DestinationOff THEN <<"Message: destination">> ELSE <<>>)
           /\ Len(ret.rows) = Len(args.route[1]) - 1
           /\ \A i \in 1..Len(ret.rows) :
                 /\ StartsAt(ret.rows[i], args.route[1][i])
                 /\ EndsAt(ret.rows[i], args.route[1][i + 1])
           /\ \A s \in Near(args.route[1][1]),
                 e \in Near(args.route[1][Len(args.route[1])]) :
                 s # e =>
                    LET close == getShapepoints2D(
                                    [args EXCEPT !.startLoc = s, !.endLoc = e])
                    IN  close.rows = ret.rows /\ close.printed = <<>>

C6_Witness ==
    /\ JourneyCall /\ ~DirectRoute
    /\ OriginOff /\ DestinationOff
    /\ Len(ret.printed) = 2
    /\ Len(ret.rows) = 2
    /\ ~StartsAt(ret.rows[1], args.startLoc)
    /\ ~EndsAt(ret.rows[2], args.endLoc)

-----------------------------------------------------------------------------
(* Properties of the two direct rules *)

ManCall == op = "_manGetShapepointsTimeDist"
EucCall == op = "_eucGetShapepointsTimeDist"
\* the corner reached by going north/south first, and by going east/west first
VerticalCorner == <<args.endLoc[1], args.startLoc[2]>>
HorizontalCorner == <<args.startLoc[1], args.endLoc[2]>>

\* C7: the path _manGetShapepointsTimeDist builds, and returns, is
\* [start, [endLat, startLon], end] with verticalFirst and
\* [start, [startLat, endLon], end] without.
C7_ManhattanCorner ==
    (ManCall /\ ret.exit \in {"pending", "return"})
        => ret.path =
             <<args.startLoc,
               IF args.verticalFirst THEN VerticalCorner ELSE HorizontalCorner,
               args.endLoc>>

\* from [0, 0] to [1, 1]: corner [1, 0] with verticalFirst
C7_Witness ==
    /\ ManCall /\ ret.exit = "return"
    /\ args.startLoc = <<0, 0>> /\ args.endLoc = <<1, 1>>
    /\ args.verticalFirst
    /\ ret.path = <<<<0, 0>>, <<1, 0>>, <<1, 1>>>>

\* the rows of a manhattan journey turn at corner c (at altitude 0)
TurnsAt(c) ==
    /\ Len(ret.rows) = 2
    /\ StartsAt(ret.rows[1], args.startLoc)
    /\ EndsAt(ret.rows[1], c)
    /\ StartsAt(ret.rows[2], c)
    /\ EndsAt(ret.rows[2], args.endLoc)
ManhattanJourney == RoutedCall /\ lower(args.routeType) = "manhattan"

\* C8 as stated: getShapepoints2D's manhattan path turns at the corner with
\* start's latitude and end's longitude; only horizontal-first turns at the
\* corner with start's longitude and end's latitude.
C8_DefaultKeepsStartLatitude ==
    /\ ManhattanJourney => TurnsAt(HorizontalCorner)
    /\ (ManCall /\ ret.exit \in {"pending", "return"} /\ ~args.verticalFirst)
          => ret.path[2] = VerticalCorner

\* C8 amended: getShapepoints2D's manhattan path (verticalFirst, the
\* default) turns at the corner with end's latitude and start's longitude;
\* only horizontal-first (verticalFirst = False) turns at the corner with
\* start's latitude and end's longitude.
C8_DefaultKeepsStartLongitude ==
    /\ ManhattanJourney => TurnsAt(VerticalCorner)
    /\ (ManCall /\ ret.exit \in {"pending", "return"} /\ ~args.verticalFirst)
          => ret.path[2] = HorizontalCorner

C8_Witness ==
    /\ ManhattanJourney
    /\ args.startLoc[1] # args.endLoc[1]
    /\ args.startLoc[2] # args.endLoc[2]
    /\ ret.rows[1].endLat = args.endLoc[1]
    /\ ret.rows[1].endLon = args.startLoc[2]
    /\ ret.rows[1].endLat # args.startLoc[1]

\* the geodesic lengths of the two legs of the call's path
Leg1 ==
    geoDistance2D(args.startLoc,
                  IF args.verticalFirst THEN VerticalCorner ELSE HorizontalCorner)
Leg2 ==
    geoDistance2D(IF args.verticalFirst THEN VerticalCorner ELSE HorizontalCorner,
                  args.endLoc)

\* C9: with expDurationSec = D and legs of total length > 0 the helper
\* returns leg times D * length_i / (length_1 + length_2), which sum to D;
\* without expDurationSec it returns leg times length_i / speedMPS.
C9_ManhattanTimes ==
    (ManCall /\ ret.exit # "pending")
        => /\ (args.expDurationSec # NoneNum /\ ~RIsZero(RAdd(Leg1, Leg2)))
                => /\ ret.exit = "return"
                   /\ ret.time[2] = RDiv(RMul(args.expDurationSec, Leg1), RAdd(Leg1, Leg2))
                   /\ ret.time[3] = RDiv(RMul(args.expDurationSec, Leg2), RAdd(Leg1, Leg2))
                   /\ RAdd(ret.time[2], ret.time[3]) = args.expDurationSec
           /\ args.expDurationSec = NoneNum
                => /\ ret.exit = "return"
                   /\ ret.time[2] = RDiv(Leg1, args.speedMPS)
                   /\ ret.time[3] = RDiv(Leg2, args.speedMPS)

C9_Witness ==
    /\ ManCall /\ ret.exit = "return"
    /\ args.expDurationSec # NoneNum
    /\ ~RIsZero(Leg1) /\ RIsZero(Leg2)
    /\ ret.time[2] = args.expDurationSec

\* C10: _eucGetShapepointsTimeDist returns the path [start, end] and one
\* segment, of the geodesic distance from start to end, taking
\* expDurationSec when given and distance / speedMPS otherwise.
C10_EuclideanSegment ==
    EucCall
        => /\ ret.exit = "return"
           /\ ret.path = <<args.startLoc, args.endLoc>>
           /\ Len(ret.dist) = 2 /\ Len(ret.time) = 2
           /\ ret.dist[2] = geoDistance2D(args.startLoc, args.endLoc)
           /\ ret.time[2] =
                IF args.expDurationSec # NoneNum
                THEN args.expDurationSec
                ELSE RDiv(geoDistance2D(args.startLoc, args.endLoc), args.speedMPS)

C10_Witness ==
    /\ EucCall /\ ret.exit = "return"
    /\ args.expDurationSec = NoneNum
    /\ args.startLoc[1] # args.endLoc[1]
    /\ args.startLoc[2] = args.endLoc[2]
    /\ ret.time[2] = RDiv(R(MetersPerStep), R(SlowMPS))

-----------------------------------------------------------------------------
(* The stationary case, by coordinates *)

\* the two ends name the same latitude and longitude
SameLatLon == LatOf(args.startLoc) = LatOf(args.endLoc)
                /\ LonOf(args.startLoc) = LonOf(args.endLoc)
\* ... and the same altitude, a missing one reading as 0
SameCoordinates == SameLatLon /\ AltOf(args.startLoc) = AltOf(args.endLoc)
NoHandlerInvoked ==
    \A k \in 1..Len(ret.invoked) : ret.invoked[k] \notin RouteHandlers

\* C11: a validated call whose startLoc and endLoc have the same latitude
\* and longitude ([lat, lon] and [lat, lon, 0] included) returns the single
\* row that stays in place and invokes no direct rule and no provider.
C11_StationaryByCoordinates ==
    (AssemblerCall /\ HasHandler /\ SameLatLon)
        => /\ ret.returned = "Assignments"
           /\ Len(ret.rows) = 1
           /\ ret.rows[1].startLat = ret.rows[1].endLat
           /\ ret.rows[1].startLon = ret.rows[1].endLon
           /\ NoHandlerInvoked

-----------------------------------------------------------------------------
(* Numeric degeneracy, and the order of the timestamps *)

\* C12: no call of getShapepoints2D ends in a division by zero; a
\* zero-length path that is to absorb expDurationSec is handled and rows
\* are returned.
C12_NoDivisionByZero ==
    (AssemblerCall /\ HasHandler)
        => /\ ret.exc # "ZeroDivisionError"
           /\ ret.returned = "Assignments"

\* the [path, time, dist] the handler of the call hands back
HandlerRoute ==
    fetchRoute(routeBranch(lower(args.routeType), lower(args.dataProvider)), args)
\* accDist of lines 299-303
AccDist == accDistOf(HandlerRoute.dist)
RowsReturned == AssemblerCall /\ ret.returned = "Assignments"

\* C13: in the rows of a call (the model's durations, speeds and provider
\* times are all non-negative) the first row starts at the caller's
\* startTimeSec, every row starts no later than it ends, every row starts
\* no earlier than the row before it ends, and on a journey the accumulated
\* distances never decrease.
C13_TimesAndDistancesMonotone ==
    RowsReturned
        => /\ Len(ret.rows) >= 1
           /\ ret.rows[1].startTimeSec = args.startTimeSec
           /\ \A i \in 1..Len(ret.rows) :
                 RLeq(ret.rows[i].startTimeSec, ret.rows[i].endTimeSec)
           /\ \A i \in 1..(Len(ret.rows) - 1) :
                 RLeq(ret.rows[i].endTimeSec, ret.rows[i + 1].startTimeSec)
           /\ JourneyCall =>
                 \A i \in 1..(Len(AccDist) - 1) : RLeq(AccDist[i], AccDist[i + 1])

C13_Witness ==
    /\ RowsReturned /\ JourneyCall
    /\ Len(ret.rows) = 2
    /\ ~RIsZero(args.startTimeSec)
    /\ ret.rows[1].startTimeSec = args.startTimeSec
    /\ ~RLeq(ret.rows[2].endTimeSec, ret.rows[1].endTimeSec)
    /\ ~RLeq(AccDist[3], AccDist[2])

\* a provider journey for which the caller gives no duration and no speed
RawTimesCall ==
    /\ JourneyCall /\ ~DirectRoute
    /\ args.expDurationSec = NoneNum /\ args.speedMPS = NoneNum

\* C14: with neither expDurationSec nor speedMPS given, row i lasts the
\* provider's time of segment i, and distributeTimeDist is not invoked.
C14_RawProviderTimesKept ==
    RawTimesCall
        => /\ ret.returned = "Assignments"
           /\ Len(ret.rows) = Len(args.route[1]) - 1
           /\ \A i \in 1..Len(ret.rows) :
                 ret.rows[i].endTimeSec =
                    RAdd(ret.rows[i].startTimeSec, args.route[2][i + 1])
           /\ \A k \in 1..Len(ret.invoked) : ret.invoked[k] # "distributeTimeDist"

C14_Witness ==
    /\ RawTimesCall
    /\ Len(ret.rows) = 2
    /\ args.route[2][2] # args.route[2][3]
    /\ ret.rows[2].endTimeSec = RAdd(ret.rows[2].startTimeSec, args.route[2][3])
    /\ ~RIsZero(args.startTimeSec)

-----------------------------------------------------------------------------
(* Points and paths in polygons *)

\* p is in the closed convex region with corners piece: on one side of, or
\* on, every edge
InConvex(p, piece) ==
    \/ \A i \in 1..Len(piece) : Cross(piece[i], NextVertex(piece, i), p) >= 0
    \/ \A i \in 1..Len(piece) : Cross(piece[i], NextVertex(piece, i), p) <= 0
\* convex regions that together make up the polygon
PiecesOf(poly) ==
    IF poly = NonConvex
    THEN { << <<0, 10>>, <<10, 10>>, <<2, 5>> >>,
           << <<2, 5>>, <<10, 0>>, <<0, 0>> >>,
           << <<0, 10>>, <<2, 5>>, <<0, 0>> >> }
    ELSE {poly}
Scaled(ps, n) == [i \in 1..Len(ps) |-> <<n * ps[i][1], n * ps[i][2]>>]
\* the point p / n is inside or on the polygon
InsideOrOnAt(p, poly, n) == \E piece \in PiecesOf(poly) : InConvex(p, Scaled(piece, n))
InsideOrOn(p, poly) == InsideOrOnAt(p, poly, 1)

PointInPolyCall == op = "isPointInPoly" /\ valPoly(args.poly)

\* C15: isPointInPoly answers true for each vertex, each point on an edge
\* and each interior point of the polygon and false for every other point,
\* whatever altitudes loc and the vertices carry.
C15_PointInPolyBoundaryInclusive ==
    PointInPolyCall
        => LET p == loc2D(args.loc)
               poly == locs2D(args.poly)
           IN  /\ ret.returned = "value"
               /\ ret.value = InsideOrOn(p, poly)
               /\ (\E i \in 1..Len(poly) : p = poly[i]) => ret.value
               /\ OnBoundary(p, poly) => ret.value

\* a point on an edge of the non-convex polygon, not a vertex, with altitudes
C15_Witness ==
    /\ PointInPolyCall
    /\ locs2D(args.poly) = NonConvex
    /\ Len(args.loc) = 3 /\ Len(args.poly[1]) = 3
    /\ OnBoundary(loc2D(args.loc), NonConvex)
    /\ \A i \in 1..Len(args.poly) : loc2D(args.loc) # loc2D(args.poly[i])
    /\ ret.value

PathInPolyCall == op = "isPathInPoly" /\ valPoly(args.poly)
\* the k-th of n + 1 evenly spaced points of the segment from a to b, times n
SamplePoint(a, b, k, n) ==
    <<(n - k) * a[1] + k * b[1], (n - k) * a[2] + k * b[2]>>
\* every sampled point of every segment of the path is inside or on the polygon
SampledInside(path, poly) ==
    \A i \in 1..(Len(path) - 1), k \in 0..SegSamples :
        InsideOrOnAt(SamplePoint(path[i], path[i + 1], k, SegSamples), poly, SegSamples)
\* each segment has both ends in one convex piece, and so lies within it
SegmentsWithinPieces(path, poly) ==
    \A i \in 1..(Len(path) - 1) :
        \E piece \in PiecesOf(poly) :
            InConvex(path[i], piece) /\ InConvex(path[i + 1], piece)

\* C16: isPathInPoly answers true iff every point of every segment of the
\* path is inside or on the polygon: an answer of true means no point of a
\* segment is outside, and a path whose segments lie within the polygon,
\* its boundary included, is answered true.
C16_PathInPolyEveryPoint ==
    PathInPolyCall
        => LET path == locs2D(args.path)
               poly == locs2D(args.poly)
           IN  /\ ret.returned = "value"
               /\ ret.value => SampledInside(path, poly)
               /\ SegmentsWithinPieces(path, poly) => ret.value

-----------------------------------------------------------------------------
(* The closest point of a path *)

ClosestCall == op = "closestPointLoc2Path" /\ Len(args.path) >= 2
\* the grid points of the line from a to b
LinePoints(a, b) ==
    { q \in (Min2(a[1], b[1])..Max2(a[1], b[1])) \X (Min2(a[2], b[2])..Max2(a[2], b[2])) :
        OnSegment(q, a, b) }
\* the point of the line nearest to p
NearestOn(p, line) ==
    CHOOSE q \in LinePoints(line[1], line[2]) :
        \A q2 \in LinePoints(line[1], line[2]) : DistSq(p, q) <= DistSq(p, q2)
LineDist(p, line) == metres(p, NearestOn(p, line))
\* the first line of the path that is as near to p as any
FirstNearest(p, lines) ==
    CHOOSE i \in 1..Len(lines) :
        /\ \A j \in 1..Len(lines) : RLeq(LineDist(p, lines[i]), LineDist(p, lines[j]))
        /\ \A j \in 1..(i - 1) : RLess(LineDist(p, lines[i]), LineDist(p, lines[j]))

\* C17: closestPointLoc2Path returns the least distance from loc to a line
\* of the path, and the point nearest to loc of the first line at that
\* distance; for a loc on a line that is loc's own latitude and longitude
\* and the distance 0.
C17_ClosestPointOfFirstNearest ==
    ClosestCall
        => LET p == loc2D(args.loc)
               lines == lstLineOf(locs2D(args.path))
               first == lines[FirstNearest(p, lines)]
           IN  /\ ret.returned = "value"
               /\ ret.distMeters = LineDist(p, first)
               /\ loc2D(ret.minPoint) = NearestOn(p, first)
               /\ (\E i \in 1..Len(lines) : OnSegment(p, lines[i][1], lines[i][2]))
                     => loc2D(ret.minPoint) = p /\ RIsZero(ret.distMeters)

-----------------------------------------------------------------------------
(* The locations at a time *)

FindLocsCall == op = "findLocsAtTime"
\* the rows of objectID with startTimeSec <= timeSec <= endTimeSec, the
\* times read as they stand in the dataframe
RowsEnclosing(objectID) ==
    { i \in 1..Len(args.assignments) :
        /\ args.assignments[i].objectID = objectID
        /\ RLeq(args.assignments[i].startTimeSec, args.timeSec)
        /\ RLeq(args.timeSec, args.assignments[i].endTimeSec) }
\* ... and the rows that have started and have a negative endTimeSec
RowsOpenEnded(objectID) ==
    { i \in 1..Len(args.assignments) :
        /\ args.assignments[i].objectID = objectID
        /\ RLeq(args.assignments[i].startTimeSec, args.timeSec)
        /\ RLess(args.assignments[i].endTimeSec, R(0)) }
\* the entry of an object of which n rows match
EntryFor(objectID, n) ==
    /\ n = 0 => ret[objectID].kind = "None" /\ ret[objectID].locs = <<>>
    /\ n = 1 => ret[objectID].kind = "loc" /\ Len(ret[objectID].locs) = 1
    /\ n >= 2 => ret[objectID].kind = "list" /\ Len(ret[objectID].locs) = n
    /\ \A k \in 1..Len(ret[objectID].locs) : Len(ret[objectID].locs[k]) = 3
DistinctIDs == {args.assignments[i].objectID : i \in 1..Len(args.assignments)}

\* C18 as stated: the dictionary has one entry per distinct objectID: None
\* when no row of the object has startTimeSec <= timeSec <= endTimeSec, one
\* [lat, lon, alt] when one row has, a list of n of them when n >= 2 rows have.
C18_EntryPerMatchingRows ==
    FindLocsCall
        => /\ DOMAIN ret = DistinctIDs
           /\ \A objectID \in DistinctIDs :
                 EntryFor(objectID, Cardinality(RowsEnclosing(objectID)))

\* C18 amended: the same, a row with a negative endTimeSec matching at every
\* timeSec from its startTimeSec on.
C18_EntryPerMatchingOrOpenRows ==
    FindLocsCall
        => /\ DOMAIN ret = DistinctIDs
           /\ \A objectID \in DistinctIDs :
                 EntryFor(objectID,
                          Cardinality(RowsEnclosing(objectID) \cup RowsOpenEnded(objectID)))

\* one object in two matching rows, one of them open-ended, the other object
\* in none
C18_Witness ==
    /\ FindLocsCall
    /\ DistinctIDs = ObjectIDs
    /\ ret["truck"].kind = "list" /\ Len(ret["truck"].locs) = 2
    /\ RowsOpenEnded("truck") # {} /\ RowsEnclosing("truck") # {}
    /\ ret["drone"].kind = "None"

-----------------------------------------------------------------------------
(* The convex hull *)

HullCall == op = "getConvexHull"
\* the coordinates of the corners of the hull of the locations given
CornerCoords ==
    LET ps == locs2D(args.locs)
    IN  {ps[i] : i \in {k \in 1..Len(ps) : IsCorner(ps[k], ps)}}

\* C19: getConvexHull returns locations of the input, as given; their
\* coordinates are the corners of the hull, and there is one location per
\* corner; also with a location given twice or within 0.0001 degrees of a
\* corner.
C19_HullVerticesOnce ==
    HullCall
        => /\ ret.returned = "value"
           /\ \A k \in 1..Len(ret.locs) :
                 \E j \in 1..Len(args.locs) : ret.locs[k] = args.locs[j]
           /\ {loc2D(ret.locs[k]) : k \in 1..Len(ret.locs)} = CornerCoords
           /\ Len(ret.locs) = Cardinality(CornerCoords)

------------------------------------------------------------------------------
(* The boundary of the map *)

MapBoundaryCall == op = "getMapBoundary" /\ ret.returned = "value"
\* every latitude given: of the nodes, of both ends of the arcs, of the locs
LatsGiven ==
    {args.nodes[i][1] : i \in 1..Len(args.nodes)}
        \cup {args.arcs[i][1] : i \in 1..Len(args.arcs)}
        \cup {args.arcs[i][3] : i \in 1..Len(args.arcs)}
        \cup {args.locs[i][1] : i \in 1..Len(args.locs)}
\* every longitude given
LonsGiven ==
    {args.nodes[i][2] : i \in 1..Len(args.nodes)}
        \cup {args.arcs[i][2] : i \in 1..Len(args.arcs)}
        \cup {args.arcs[i][4] : i \in 1..Len(args.arcs)}
        \cup {args.locs[i][2] : i \in 1..Len(args.locs)}
Least(S) == CHOOSE x \in S : \A y \in S : x <= y
Greatest(S) == CHOOSE x \in S : \A y \in S : x >= y

\* C20: getMapBoundary returns [[minLat, maxLon], [maxLat, minLon]], the
\* extreme latitudes and longitudes of the nodes, arc ends and locs given.
C20_MapBoundaryIsExtremes ==
    MapBoundaryCall
        => ret.locs = << <<Least(LatsGiven), Greatest(LonsGiven)>>,
                         <<Greatest(LatsGiven), Least(LonsGiven)>> >>

------------------------------------------------------------------------------
(* Matrices: dictionary to dataframe and back *)

\* the keys of a dictionary, and the value it holds for one of them
KeysOf(d) == {d[n][1] : n \in 1..Len(d)}
ValueOf(d, key) == (CHOOSE e \in {d[n] : n \in 1..Len(d)} : e[1] = key)[2]
\* d1 == d2 in Python: the same keys with equal values, in any order; a NaN
\* equals nothing
DictEqual(d1, d2) ==
    /\ KeysOf(d1) = KeysOf(d2)
    /\ \A key \in KeysOf(d1) :
          ValueOf(d1, key) # NaN /\ ValueOf(d1, key) = ValueOf(d2, key)
\* the keys are pairs and there is one for every (from, to)
CoversEveryPair(d) ==
    /\ \A key \in KeysOf(d) : Len(key) = 2
    /\ KeysOf(d) = {<<k1[1], k2[2]>> : k1 \in KeysOf(d), k2 \in KeysOf(d)}
RoundTrip ==
    op = "convertMatricesDataframeToDictionary" /\ CoversEveryPair(args.dictionary)

\* C21: the dataframe made of a dictionary covering every pair holds d[i, j]
\* at row i, column j, and converting it back gives a dictionary equal to d.
C21_MatrixRoundTrip ==
    /\ (op = "convertMatricesDictionaryToDataframe" /\ CoversEveryPair(args.dictionary))
          => /\ ret.returned = "value"
             /\ \A key \in KeysOf(args.dictionary) :
                   /\ hasLabel(ret.dataframe.index, key[1])
                   /\ hasLabel(ret.dataframe.columns, key[2])
                   /\ ret.dataframe.at[key] = ValueOf(args.dictionary, key)
    /\ RoundTrip
          => /\ ret.returned = "value"
             /\ DictEqual(ret.dictionary, args.dictionary)

\* a two by two matrix, its entries inserted in another order than the
\* dataframe is read in, has come back
C21_Witness ==
    /\ RoundTrip
    /\ Len(args.dictionary) = 4
    /\ ret.dictionary # args.dictionary
    /\ args.dictionary[1][1] = <<2, 1>>
    /\ ValueOf(args.dictionary, <<1, 2>>) # ValueOf(args.dictionary, <<2, 1>>)

------------------------------------------------------------------------------
(* Importing from a file *)

ImportCall == op = "importDataFromCSV"
\* the call cannot import: the data type is none of the four, the file
\* cannot be read or parsed, or the table is not a clean one of the kind
\* asked for
ImportFails ==
    LET type == lower(args.dataType)
    IN  \/ type \notin CsvKinds
        \/ args.file.state # "table"
        \/ args.file.holds # type
        \/ type # "matrix" /\ args.file.warned

\* C22: every failing import prints a message and returns None: no data, no
\* exception.
C22_ImportFailsQuietly ==
    (ImportCall /\ ImportFails)
        => /\ Len(ret.printed) >= 1
           /\ ret.returned = "None"
           /\ ret.exc = "none"

------------------------------------------------------------------------------
(* Speed given, no expected duration *)

SpeedOnlyCall ==
    JourneyCall /\ args.speedMPS # NoneNum /\ args.expDurationSec = NoneNum
\* the sum of the times the provider gave for its segments
ProviderTotalTime == RSum(args.route[2], Len(args.route[2]))

\* C23: a journey with speedMPS given and no expDurationSec returns rows
\* whose last endTimeSec is startTimeSec plus the route's length (the sum of
\* its per-segment distances) divided by speedMPS.
C23_SpeedSetsTotalTime ==
    SpeedOnlyCall
        => /\ ret.returned = "Assignments"
           /\ Len(ret.rows) >= 1
           /\ LastRow.endTimeSec
                 = RAdd(args.startTimeSec, RDiv(ExpReportedLength, args.speedMPS))

\* a provider's route of two segments, whose own times add up to another
\* total, has been re-timed by the speed
C23_Witness ==
    /\ SpeedOnlyCall
    /\ ~DirectRoute
    /\ Len(ret.rows) = 2
    /\ ProviderTotalTime # RDiv(ExpReportedLength, args.speedMPS)
    /\ ~RIsZero(ExpReportedLength)
    /\ LastRow.endTimeSec # RAdd(args.startTimeSec, ProviderTotalTime)

------------------------------------------------------------------------------
(* Rows without end *)

\* the rows of the object of row i, up to row i, that match at timeSec
MatchingUpTo(i) ==
    { j \in 1..i :
        j \in RowsEnclosing(args.assignments[i].objectID)
                 \cup RowsOpenEnded(args.assignments[i].objectID) }
\* row i has a negative endTimeSec and has started at timeSec
OpenAndStarted(i) ==
    /\ RLess(args.assignments[i].endTimeSec, R(0))
    /\ RLeq(args.assignments[i].startTimeSec, args.timeSec)
StartOf(row) == <<R(row.startLat), R(row.startLon), R(row.startAltMeters)>>

\* C24: a row with a negative endTimeSec matches at every timeSec from its
\* startTimeSec on, and its object is reported, for that row, at the row's
\* start latitude, longitude and altitude.
C24_OpenEndedAtStart ==
    FindLocsCall
        => \A i \in 1..Len(args.assignments) :
              OpenAndStarted(i)
                 => LET entry == ret[args.assignments[i].objectID]
                        k == Cardinality(MatchingUpTo(i))
                    IN  /\ entry.kind # "None"
                        /\ Len(entry.locs) >= k
                        /\ entry.locs[k] = StartOf(args.assignments[i])

\* a row without end, leading elsewhere and higher, is the only match of
\* its object well after its start
C24_Witness ==
    /\ FindLocsCall
    /\ args.timeSec = R(3)
    /\ \E i \in 1..Len(args.assignments) :
          /\ OpenAndStarted(i)
          /\ args.assignments[i].endLat # args.assignments[i].startLat
          /\ args.assignments[i].endAltMeters # args.assignments[i].startAltMeters
          /\ ret[args.assignments[i].objectID].kind = "loc"

------------------------------------------------------------------------------
(* The cells of the Gantt chart *)

GanttCall == op = "createGantt"
GanttObjects == {args.assignments[i].objectID : i \in 1..Len(args.assignments)}
\* the rows of an object as given, sorted by odID, then startTimeSec
SortedRowsOf(objectID) ==
    LET given == rowsOf(args.assignments, Len(args.assignments), objectID)
    IN  sortRows(given, Len(given))
\* row j and the next row belong to one run
SameRun(rows, j) ==
    /\ args.mergeByodID
    /\ rows[j].odID = rows[j + 1].odID
    /\ rows[j].endTimeSec = rows[j + 1].startTimeSec
    /\ args.splitOnColorChange => rows[j].ganttColor = rows[j + 1].ganttColor
\* the rows that end a maximal run, and for such a row the first of its run
RunEnds(rows) == {j \in 1..Len(rows) : j = Len(rows) \/ ~SameRun(rows, j)}
RunStart(rows, j) ==
    CHOOSE i \in 1..j :
        /\ \A k \in i..(j - 1) : SameRun(rows, k)
        /\ i = 1 \/ ~SameRun(rows, i - 1)
\* the spans of the runs, as <<start, end>>, and of the cells drawn
RunSpans(rows) ==
    {<<rows[RunStart(rows, j)].startTimeSec, rows[j].endTimeSec>> : j \in RunEnds(rows)}
CellSpans(cells) ==
    {<<cells[k].start_x, RAdd(cells[k].start_x, cells[k].duration)>> : k \in 1..Len(cells)}

\* C25: per object there is one cell for each maximal run of its rows (same
\* odID, each end time the next start time, the same colour when
\* splitOnColorChange), from the run's first startTimeSec to its last
\* endTimeSec; with mergeByodID off every row is a run of its own.
C25_OneCellPerRun ==
    GanttCall
        => \A objectID \in GanttObjects :
              LET rows == SortedRowsOf(objectID)
                  cells == ret.bars[objectID]
              IN  /\ Len(cells) = Cardinality(RunEnds(rows))
                  /\ CellSpans(cells) = RunSpans(rows)

------------------------------------------------------------------------------
(* The rows as a chain *)

\* row r ends where and when row q starts
Joins(r, q) ==
    /\ r.endLat = q.startLat
    /\ r.endLon = q.startLon
    /\ r.endAltMeters = q.startAltMeters
    /\ r.endTimeSec = q.startTimeSec

\* C26: in the rows getShapepoints2D returns, every row ends at the
\* latitude, longitude, altitude and time at which the next row starts.
C26_RowsFormChain ==
    (AssemblerCall /\ ret.returned = "Assignments")
        => \A i \in 1..(Len(ret.rows) - 1) : Joins(ret.rows[i], ret.rows[i + 1])

\* two rows along a provider's path, from a start with an altitude, each
\* taking time
C26_Witness ==
    /\ RoutedCall
    /\ ~DirectRoute
    /\ Len(ret.rows) = 2
    /\ Len(args.startLoc) = 3 /\ args.startLoc[3] # 0
    /\ \A i \in 1..2 : ret.rows[i].startTimeSec # ret.rows[i].endTimeSec
    /\ ret.rows[1].endLat # ret.rows[1].startLat \/ ret.rows[1].endLon # ret.rows[1].startLon

------------------------------------------------------------------------------
(* One location along a journey *)

\* the dataframe asked about is a chain of two or more rows of one object,
\* each taking time: the rows of one journey over three or more points
JourneyRows ==
    LET rows == args.assignments
    IN  /\ Len(rows) >= 2
        /\ \A i \in 1..Len(rows) :
              /\ rows[i].objectID = rows[1].objectID
              /\ RLess(rows[i].startTimeSec, rows[i].endTimeSec)
        /\ \A i \in 1..(Len(rows) - 1) : Joins(rows[i], rows[i + 1])
DuringJourney ==
    /\ RLeq(args.assignments[1].startTimeSec, args.timeSec)
    /\ RLeq(args.timeSec, args.assignments[Len(args.assignments)].endTimeSec)

\* C27: asked about the rows of one journey over three or more points, at a
\* time from its start to its end, findLocsAtTime reports the object at one
\* location, also at the times where one row ends and the next starts.
C27_OneLocationAlongJourney ==
    (FindLocsCall /\ JourneyRows /\ DuringJourney)
        => LET entry == ret[args.assignments[1].objectID]
           IN  entry.kind = "loc" /\ Len(entry.locs) = 1

------------------------------------------------------------------------------
(* The arguments of closestPointLoc2Path after the call *)

\* C28: once closestPointLoc2Path has returned, loc and every location of
\* path, altitudes included, are as the caller gave them.
C28_ArgumentsUnchanged ==
    (op = "closestPointLoc2Path")
        => /\ args.after.loc = args.loc
           /\ args.after.path = args.path

====
